---------------------------- MODULE Spec2Model ----------------------------
(***************************************************************************)
(* IntegraGov, Fase 1: key normalizer (silver.py), standardizer            *)
(* (silver.py), indicator aggregator (gold.py) and the SQLite store        *)
(* (db.py) driven by run_pipeline.py.                                      *)
(*                                                                         *)
(* Values are tagged records.  A Python value is                           *)
(*   [kind |-> "None"]                      None                           *)
(*   [kind |-> "int",   v |-> n]            the int n                      *)
(*   [kind |-> "float", cls |-> c, num |-> n, den |-> d]                   *)
(*        c = "nan" | "inf" | "ninf" | "fin"; a finite float is n/d        *)
(*   [kind |-> "str",   s |-> <<chars>>]    a str, one character per item  *)
(*   [kind |-> "df", columns |-> set, rows |-> <<row>>]                    *)
(*        a DataFrame; a row is a function from the columns to values      *)
(* A call's outcome is a value or [kind |-> "raise", exc |-> name].        *)
(* The character "sup2" stands for U+00B2 (SUPERSCRIPT TWO), a character   *)
(* for which str.isdigit() is True and which is no decimal digit.          *)
(***************************************************************************)
EXTENDS Integers, Sequences, FiniteSets, TLC

VARIABLES
    pc,        \* position of the call under study
    valor,     \* argument of codigo_municipio_7_digitos / _codigo_7
    ret,       \* outcome of the call
    df,        \* argument of padronizar_codigo_municipio
    df_out,    \* outcome of padronizar_codigo_municipio
    df_populacao, df_obitos, df_internacoes, df_nascidos, ano,
               \* arguments of indicadores_saude_por_municipio
    gold,      \* outcome of indicadores_saude_por_municipio
    clock,     \* datetime.now(), counted in calls
    bronze_municipios, bronze_populacao,
               \* the latest Bronze file of each prefix, None without a file
    dim_municipio, silver_ibge_populacao, gold_indicadores_saude_municipio,
               \* the tables of the SQLite store
    outcome,   \* how the last call of the pipeline ended: None or a raise
    env,       \* what the remote services answered in the last run
    requests   \* the remote requests the last run made, in order

normVars == <<valor, ret>>
stdVars == <<df, df_out>>
aggVars == <<df_populacao, df_obitos, df_internacoes, df_nascidos, ano, gold>>

bronzeVars == <<bronze_municipios, bronze_populacao>>
dbVars == <<dim_municipio, silver_ibge_populacao, gold_indicadores_saude_municipio>>
pipeVars == <<bronzeVars, dbVars, outcome, env, requests>>

vars == <<pc, normVars, stdVars, aggVars, clock, pipeVars>>

-----------------------------------------------------------------------------
(* Python values *)

PyNone == [kind |-> "None"]
PyInt(n) == [kind |-> "int", v |-> n]
PyNaN == [kind |-> "float", cls |-> "nan", num |-> 0, den |-> 1]
PyInf == [kind |-> "float", cls |-> "inf", num |-> 0, den |-> 1]
PyNegInf == [kind |-> "float", cls |-> "ninf", num |-> 0, den |-> 1]
PyFloat(n, d) == [kind |-> "float", cls |-> "fin", num |-> n, den |-> d]
PyStr(chars) == [kind |-> "str", s |-> chars]
Raise(e) == [kind |-> "raise", exc |-> e]

DecimalDigits == {"0", "1", "2", "3", "4", "5", "6", "7", "8", "9"}
DigitChar == <<"0", "1", "2", "3", "4", "5", "6", "7", "8", "9">>

\* str.isdigit() of one character: the decimal digits and the other
\* characters of Unicode type Digit, of which the model carries U+00B2.
isdigit(c) == c \in DecimalDigits \cup {"sup2"}

isspace(c) == c = " "

\* pd.isna of a float
isna(x) == x.kind = "float" /\ x.cls = "nan"

\* int(x) of an int or a float: truncation toward zero; OverflowError on an
\* infinity.  (NaN never reaches it: the caller returns before.)
int(x) ==
    IF x.kind = "int" THEN PyInt(x.v)
    ELSE IF x.cls \in {"inf", "ninf"} THEN Raise("OverflowError")
    ELSE IF x.cls = "nan" THEN Raise("ValueError")
    ELSE IF x.num >= 0 THEN PyInt(x.num \div x.den)
    ELSE PyInt(-((-x.num) \div x.den))

RECURSIVE DecStr(_)
DecStr(n) ==
    IF n < 10 THEN <<DigitChar[n + 1]>>
    ELSE DecStr(n \div 10) \o <<DigitChar[(n % 10) + 1]>>

\* str(n) of an int
str(n) == IF n < 0 THEN <<"-">> \o DecStr(-n) ELSE DecStr(n)

RECURSIVE lstrip(_)
lstrip(s) == IF s # <<>> /\ isspace(Head(s)) THEN lstrip(Tail(s)) ELSE s

RECURSIVE rstrip(_)
rstrip(s) ==
    IF s # <<>> /\ isspace(s[Len(s)]) THEN rstrip(SubSeq(s, 1, Len(s) - 1)) ELSE s

\* str.strip()
strip(s) == rstrip(lstrip(s))

\* "".join(c for c in s if c.isdigit())
join_isdigit(s) == SelectSeq(s, isdigit)

RECURSIVE Zeros(_)
Zeros(n) == IF n <= 0 THEN <<>> ELSE <<"0">> \o Zeros(n - 1)

\* a plausible slip: padding on the right (ljust) instead of the left
zfill_right(s, width) == s \o Zeros(width - Len(s))

\* str.zfill(width): zeros on the left, after a leading sign
zfill(s, width) ==
    IF Len(s) >= width THEN s
    ELSE IF s # <<>> /\ Head(s) \in {"+", "-"}
         THEN <<Head(s)>> \o Zeros(width - Len(s)) \o Tail(s)
         ELSE Zeros(width - Len(s)) \o s

-----------------------------------------------------------------------------
(* Key normalizer *)

\* silver.py codigo_municipio_7_digitos
codigo_municipio_7_digitos(x) ==
    IF x.kind = "None" \/ isna(x) THEN PyNone
    ELSE LET conv == IF x.kind \in {"int", "float"} THEN int(x) ELSE x
         IN  IF conv.kind = "raise" THEN conv
             ELSE LET s0 == IF conv.kind = "int" THEN str(conv.v) ELSE strip(conv.s)
                      s  == join_isdigit(s0)
                  IN  IF Len(s) = 6 THEN PyStr(zfill(s, 7))
                      ELSE IF Len(s) = 7 THEN PyStr(s)
                      ELSE PyNone

\* datasus_pysus_fallback.py _codigo_7
_codigo_7(x) ==
    IF x.kind = "None" \/ isna(x) THEN PyNone
    ELSE LET conv == IF x.kind \in {"int", "float"} THEN int(x) ELSE x
         IN  IF conv.kind = "raise" THEN conv
             ELSE LET s0 == IF conv.kind = "int" THEN str(conv.v) ELSE strip(conv.s)
                      s  == join_isdigit(s0)
                  IN  IF Len(s) = 6 THEN PyStr(zfill(s, 7))
                      ELSE IF Len(s) = 7 THEN PyStr(s) ELSE PyNone

-----------------------------------------------------------------------------
(* Inputs of the key normalizer *)

MaxDigits == 8

InputDigits == {"0", "3"}

DigitRuns == UNION {[1..k -> InputDigits] : k \in 0..MaxDigits}

InsertAt(s, i, c) == SubSeq(s, 1, i) \o <<c>> \o SubSeq(s, i + 1, Len(s))

\* a run of decimal digits, or one with a separator, a blank or a
\* non-decimal digit somewhere inside
Bodies ==
    DigitRuns \cup
    UNION {{InsertAt(s, i, c) : i \in 0..Len(s), c \in {"-", " ", "sup2"}} :
           s \in DigitRuns}

Pads == {<<>>, <<" ">>}

StringInputs == {PyStr(a \o b \o c) : a \in Pads, b \in Bodies, c \in Pads}

IntSamples ==
    {0, 7, 99999, 100000, 355030, 999999, 1000000, 3550308, 9999999, 10000000,
     -355030, -3550308}

NumberInputs ==
    {PyNone, PyNaN, PyInf, PyNegInf}
    \cup {PyInt(n) : n \in IntSamples}
    \cup {PyFloat(2 * n, 2) : n \in IntSamples}
    \cup {PyFloat(2 * n + 1, 2) : n \in IntSamples}

NormalizerInputs == StringInputs \cup NumberInputs

\* pd.DataFrame(): no columns, no rows
EmptyTable == [kind |-> "df", columns |-> {}, rows |-> <<>>]

\* the values of the variables a specification does not use
NormIdle == valor = PyNone /\ ret = PyNone
StdIdle == df = EmptyTable /\ df_out = PyNone
AggIdle ==
    /\ df_populacao = EmptyTable
    /\ df_obitos = PyNone
    /\ df_internacoes = PyNone
    /\ df_nascidos = PyNone
    /\ ano = PyNone
    /\ gold = PyNone
    /\ clock = 0

PipeIdle ==
    /\ bronze_municipios = PyNone
    /\ bronze_populacao = PyNone
    /\ dim_municipio = {}
    /\ silver_ibge_populacao = <<>>
    /\ gold_indicadores_saude_municipio = <<>>
    /\ outcome = PyNone
    /\ env = PyNone
    /\ requests = <<>>

InitNormalize ==
    /\ pc = "start"
    /\ valor \in NormalizerInputs
    /\ ret = PyNone
    /\ StdIdle
    /\ AggIdle
    /\ PipeIdle

\* one call of codigo_municipio_7_digitos(valor)
Normalize ==
    /\ pc = "start"
    /\ ret' = codigo_municipio_7_digitos(valor)
    /\ pc' = "done"
    /\ UNCHANGED <<valor, stdVars, aggVars, clock, pipeVars>>

\* one call of _codigo_7(valor)
NormalizeFallback ==
    /\ pc = "start"
    /\ ret' = _codigo_7(valor)
    /\ pc' = "done"
    /\ UNCHANGED <<valor, stdVars, aggVars, clock, pipeVars>>

\* the key returned is normalized again
Renormalize ==
    /\ pc = "done"
    /\ ret.kind = "str"
    /\ valor' = ret
    /\ ret' = codigo_municipio_7_digitos(ret)
    /\ pc' = "redone"
    /\ UNCHANGED <<stdVars, aggVars, clock, pipeVars>>

NextNormalize == Normalize \/ NormalizeFallback \/ Renormalize

SpecNormalize == InitNormalize /\ [][NextNormalize]_vars

-----------------------------------------------------------------------------
(* Claims on the key normalizer *)

IsDecimal(s) == \A i \in 1..Len(s) : s[i] \in DecimalDigits

\* the decimal digits an input carries, in order: those of a str's text, or
\* those of the integer an int or a float-encoded integer stands for
DecimalText(x) ==
    IF x.kind = "str" THEN SelectSeq(x.s, LAMBDA c : c \in DecimalDigits)
    ELSE IF x.kind = "int" THEN DecStr(IF x.v < 0 THEN -x.v ELSE x.v)
    ELSE IF x.kind = "float" /\ x.cls = "fin"
         THEN DecStr((IF x.num < 0 THEN -x.num ELSE x.num) \div x.den)
    ELSE <<>>

\* the digit string of an input, a digit being whatever str.isdigit()
\* accepts: the reading of "digit" most favourable to the code
DigitText(x) ==
    IF x.kind = "str" THEN SelectSeq(x.s, isdigit) ELSE DecimalText(x)

\* C2: an input that is null, non-numeric, empty or whose digit string has
\* a length other than 6 or 7 yields None, and the call does not raise.
C2_MalformedYieldsInvalid ==
    (pc = "done" /\ Len(DigitText(valor)) \notin {6, 7}) => ret = PyNone

\* C3: the result is None or a string of exactly 7 decimal digits, namely
\* the input's digits in order, preceded by one zero when there are 6.
C3_ResultIsSevenDigits ==
    pc = "done" =>
        \/ ret = PyNone
        \/ /\ ret.kind = "str"
           /\ Len(ret.s) = 7
           /\ IsDecimal(ret.s)
           /\ LET d == DecimalText(valor)
              IN  \/ Len(d) = 7 /\ ret.s = d
                  \/ Len(d) = 6 /\ ret.s = <<"0">> \o d

\* C4: a string s of 6 decimal digits and "0" + s normalize to the same
\* key, "0" + s; a key that was returned normalizes to itself.
C4_PaddingIdempotent ==
    /\ (pc = "done" /\ valor.kind = "str" /\ Len(valor.s) = 6 /\ IsDecimal(valor.s)) =>
           /\ ret = PyStr(<<"0">> \o valor.s)
           /\ codigo_municipio_7_digitos(PyStr(<<"0">> \o valor.s)) = ret
    /\ (pc = "done" /\ valor.kind = "str" /\ Len(valor.s) = 7 /\ IsDecimal(valor.s)) =>
           ret = valor
    /\ pc = "redone" => ret = valor

C4_Witness ==
    /\ pc = "redone"
    /\ valor = PyStr(<<"0", "3", "0", "0", "3", "0", "3">>)
    /\ ret = valor

-----------------------------------------------------------------------------
(* Standardizer *)

\* default of the parameter coluna
coluna == "cod_mun_ibge_7"

\* the alias columns, in the order they are probed
Aliases == <<"codigo_ibge", "id_municipio", "CODMUN", "cod_mun", "codmun">>

\* a plausible slip: a table without a candidate column keyed by its
\* column "nome"
KeySource_nome(d) ==
    IF coluna \in d.columns THEN coluna
    ELSE LET present == {i \in 1..Len(Aliases) : Aliases[i] \in d.columns}
         IN  IF present = {} THEN (IF "nome" \in d.columns THEN "nome" ELSE "")
             ELSE Aliases[CHOOSE i \in present : \A j \in present : i <= j]

\* a plausible slip: the loop over the aliases without its break, so that
\* the last alias present wins
KeySource_sem_break(d) ==
    IF coluna \in d.columns THEN coluna
    ELSE LET present == {i \in 1..Len(Aliases) : Aliases[i] \in d.columns}
         IN  IF present = {} THEN ""
             ELSE Aliases[CHOOSE i \in present : \A j \in present : i >= j]

\* the column the key is derived from: coluna itself when present, else
\* the first alias present, else "" (none)
KeySource(d) ==
    IF coluna \in d.columns THEN coluna
    ELSE LET present == {i \in 1..Len(Aliases) : Aliases[i] \in d.columns}
         IN  IF present = {} THEN ""
             ELSE Aliases[CHOOSE i \in present : \A j \in present : i <= j]

\* df[coluna].notna() & (df[coluna].str.len() == 7) of one row
KeepRow(r) == r[coluna].kind = "str" /\ Len(r[coluna].s) = 7

\* a plausible slip: the normalized value written to the candidate columns
\* of the row as well
atribuir_candidatas(r, cols, key) ==
    [c \in cols |->
        IF c = coluna \/ \E i \in 1..Len(Aliases) : Aliases[i] = c THEN key ELSE r[c]]

\* df[coluna] = ... for one row r: the columns cols with the key in coluna
atribuir(r, cols, key) == [c \in cols |-> IF c = coluna THEN key ELSE r[c]]

\* silver.py SilverTransform.padronizar_codigo_municipio
padronizar_codigo_municipio(d) ==
    LET src == KeySource(d)
    IN  IF src = "" THEN d
        ELSE LET applied == [i \in 1..Len(d.rows) |->
                                codigo_municipio_7_digitos(d.rows[i][src])]
                 raised == {i \in 1..Len(d.rows) : applied[i].kind = "raise"}
             IN  IF raised # {}
                 THEN applied[CHOOSE i \in raised : \A j \in raised : i <= j]
                 ELSE LET cols == d.columns \cup {coluna}
                          set == [i \in 1..Len(d.rows) |->
                                     atribuir(d.rows[i], cols, applied[i])]
                      IN  [kind |-> "df", columns |-> cols,
                           rows |-> SelectSeq(set, KeepRow)]

-----------------------------------------------------------------------------
(* Inputs of the standardizer *)

MaxTableRows == 2

RawKeySamples ==
    {PyNone, PyInt(355030), PyInf,
     PyStr(<<"3", "5", "5", "0", "3", "0", "8">>),
     PyStr(<<"3", "5", "5", "0", "3">>),
     PyStr(<<"3", "5", "5", "0", "3", "0", "sup2">>)}

KeyColumnSets ==
    {{coluna}, {coluna, "codigo_ibge"}, {"codigo_ibge"}, {"id_municipio", "CODMUN"},
     {"CODMUN", "cod_mun"}, {"cod_mun", "codmun"}, {"codmun"}, {}, {"CODMUNRES"}}

RowLabel == <<"a", "b", "c", "d">>

\* the table with key-like columns kc whose i-th row holds f[i], and a
\* payload column "nome" whose value tells the rows apart
MakeTable(kc, f) ==
    [kind |-> "df", columns |-> kc \cup {"nome"},
     rows |-> [i \in 1..Len(f) |->
                  [c \in kc \cup {"nome"} |->
                      IF c = "nome" THEN PyStr(<<RowLabel[i]>>) ELSE f[i][c]]]]

\* the values of the tables with two key-like columns
AliasSamples ==
    {PyNone,
     PyStr(<<"3", "5", "5", "0", "3", "0", "8">>),
     PyStr(<<"3", "5", "5", "0", "3">>)}

StandardizerInputs ==
    UNION {{MakeTable(kc, f) :
               f \in UNION {[1..n -> [kc -> IF Cardinality(kc) = 1 THEN RawKeySamples
                                            ELSE AliasSamples]] :
                               n \in 0..MaxTableRows}} :
           kc \in KeyColumnSets}
        \cup {EmptyTable}

InitStandardize ==
    /\ pc = "start"
    /\ df \in StandardizerInputs
    /\ df_out = PyNone
    /\ NormIdle
    /\ AggIdle
    /\ PipeIdle

\* one call of padronizar_codigo_municipio(df); the method works on a copy,
\* the caller's table stays as it was; the call is made a second time on
\* the same table
Standardize ==
    /\ pc \in {"start", "standardized"}
    /\ df_out' = padronizar_codigo_municipio(df)
    /\ pc' = IF pc = "start" THEN "standardized" ELSE "repeated"
    /\ UNCHANGED <<df, normVars, aggVars, clock, pipeVars>>

NextStandardize == Standardize

SpecStandardize == InitStandardize /\ [][NextStandardize]_vars

-----------------------------------------------------------------------------
(* Claims on the standardizer *)

ValidKey(v) == v.kind = "str" /\ Len(v.s) = 7 /\ IsDecimal(v.s)

\* C5: for a table that has the key column or an alias column the call
\* returns a table, every row of which has a valid 7-digit key, with no
\* more rows than the input.
C5_OnlyValidKeysRetained ==
    (pc = "standardized" /\ KeySource(df) # "") =>
        /\ df_out.kind = "df"
        /\ \A i \in 1..Len(df_out.rows) : ValidKey(df_out.rows[i][coluna])
        /\ Len(df_out.rows) <= Len(df.rows)

\* the row r of the result is the row s of the input in every column of
\* the input but the key column
SameRow(r, s) == \A c \in df.columns \ {coluna} : r[c] = s[c]

\* C22: the rows of the result are rows of the input, in the order of the
\* input, with the values of the input in every column but the key; the
\* second call on the same table gives the same result, and no call
\* changes the table it is given.
C22_RetainedRowsUntouched ==
    [][/\ df' = df
       /\ df_out'.kind = "df" =>
            /\ df.columns \subseteq df_out'.columns
            /\ \E f \in [1..Len(df_out'.rows) -> 1..Len(df.rows)] :
                  /\ \A i, j \in 1..Len(df_out'.rows) : i < j => f[i] < f[j]
                  /\ \A i \in 1..Len(df_out'.rows) :
                        SameRow(df_out'.rows[i], df.rows[f[i]])
       /\ pc' = "repeated" => df_out' = df_out]_vars

\* the second of two rows retained with its name and its alias value
C22_Witness ==
    /\ pc = "standardized"
    /\ df.columns = {"codigo_ibge", "nome"}
    /\ Len(df.rows) = 2
    /\ df.rows[1].codigo_ibge = PyNone
    /\ df_out.kind = "df"
    /\ Len(df_out.rows) = 1
    /\ df_out.rows[1].nome = PyStr(<<"b">>)
    /\ df_out.rows[1].codigo_ibge = PyInt(355030)

\* the names under which a table may carry the municipality code
\* the column the key is to come from, by the fixed priority order
ColunaFonte(cols) ==
    IF coluna \in cols THEN coluna
    ELSE IF "codigo_ibge" \in cols THEN "codigo_ibge"
    ELSE IF "id_municipio" \in cols THEN "id_municipio"
    ELSE IF "CODMUN" \in cols THEN "CODMUN"
    ELSE IF "cod_mun" \in cols THEN "cod_mun"
    ELSE "codmun"

\* the input rows whose value in column src normalizes to a 7-character key
Retidas(src) ==
    SelectSeq(df.rows,
              LAMBDA r : LET k == codigo_municipio_7_digitos(r[src])
                         IN  k.kind = "str" /\ Len(k.s) = 7)

\* C26: a call that returns a table, on an input that has the canonical
\* key column or more than one alias column, takes the key of every row
\* from the canonical column when it is present and else from the first
\* alias present in the order codigo_ibge, id_municipio, CODMUN, cod_mun,
\* codmun: the output is the input rows whose value in that one column
\* normalizes to a key, with that key, and the other columns (the aliases
\* among them) as they were.
C26_CanonicalThenFirstAlias ==
    (/\ pc = "standardized"
     /\ df_out.kind = "df"
     /\ \/ coluna \in df.columns
        \/ Cardinality(df.columns \cap
                         {"codigo_ibge", "id_municipio", "CODMUN", "cod_mun", "codmun"}) > 1) =>
        /\ Len(df_out.rows) = Len(Retidas(ColunaFonte(df.columns)))
        /\ \A i \in 1..Len(df_out.rows) :
              /\ df_out.rows[i][coluna] =
                     codigo_municipio_7_digitos(Retidas(ColunaFonte(df.columns))[i][ColunaFonte(df.columns)])
              /\ \A c \in df.columns \ {coluna} :
                     df_out.rows[i][c] = Retidas(ColunaFonte(df.columns))[i][c]

\* a table with the aliases CODMUN and cod_mun: the first row has its code
\* in CODMUN only and is kept, the second has it in cod_mun only and is
\* dropped
C26_Witness ==
    /\ pc = "standardized"
    /\ df.columns = {"CODMUN", "cod_mun", "nome"}
    /\ Len(df.rows) = 2
    /\ df.rows[1].CODMUN = PyStr(<<"3", "5", "5", "0", "3", "0", "8">>)
    /\ df.rows[1].cod_mun = PyNone
    /\ df.rows[2].CODMUN = PyNone
    /\ df.rows[2].cod_mun = PyStr(<<"3", "5", "5", "0", "3", "0", "8">>)
    /\ df_out.kind = "df"
    /\ Len(df_out.rows) = 1
    /\ df_out.rows[1].nome = PyStr(<<"a">>)
    /\ df_out.rows[1][coluna] = PyStr(<<"3", "5", "5", "0", "3", "0", "8">>)

CandidateColumns == {coluna, "codigo_ibge", "id_municipio", "CODMUN", "cod_mun", "codmun"}

\* C21: for a table with none of the candidate columns the call raises
\* nothing and returns a table with the rows and columns of the input.
C21_NoCandidateColumnUnchanged ==
    (pc = "standardized" /\ df.columns \cap CandidateColumns = {}) =>
        /\ df_out.kind = "df"
        /\ df_out.columns = df.columns
        /\ df_out.rows = df.rows

\* a table of two rows whose code is in a column that is no alias
C21_Witness ==
    /\ pc = "standardized"
    /\ df.columns = {"CODMUNRES", "nome"}
    /\ Len(df.rows) = 2
    /\ df.rows[1].CODMUNRES = PyStr(<<"3", "5", "5", "0", "3", "0", "8">>)
    /\ df_out = df

-----------------------------------------------------------------------------
(* DataFrame operations used by the aggregator *)

\* a plausible slip: the test for an empty table left out
empty_never(d) == FALSE

\* DataFrame.empty: no columns or no rows
empty(d) == d.columns = {} \/ Len(d.rows) = 0

\* truth value of the parameter ano (None and 0 are false)
truthy(a) == a.kind = "int" /\ a.v # 0

\* a plausible slip: the year filter left out
FilterAno_forgotten(d, a) == d

\* if ano and "ano" in d.columns: d = d[d["ano"] == ano]
FilterAno(d, a) ==
    IF truthy(a) /\ "ano" \in d.columns
    THEN [d EXCEPT !.rows = SelectSeq(d.rows, LAMBDA r : r.ano = a)]
    ELSE d

Rank(c) == IF c \in DecimalDigits THEN CHOOSE i \in 1..10 : DigitChar[i] = c ELSE 11

\* str < str
RECURSIVE StrLess(_, _)
StrLess(a, b) ==
    IF b = <<>> THEN FALSE
    ELSE IF a = <<>> THEN TRUE
    ELSE IF Rank(Head(a)) # Rank(Head(b)) THEN Rank(Head(a)) < Rank(Head(b))
    ELSE StrLess(Tail(a), Tail(b))

\* the group keys of groupby("cod_mun_ibge_7"): the non-null keys, sorted
RECURSIVE SortKeys(_)
SortKeys(S) ==
    IF S = {} THEN <<>>
    ELSE LET m == CHOOSE k \in S : \A j \in S \ {k} : StrLess(k.s, j.s)
         IN  <<m>> \o SortKeys(S \ {m})

GroupKeys(rows) ==
    SortKeys({k \in {rows[i][coluna] : i \in 1..Len(rows)} : k.kind = "str"})

Group(rows, k) == SelectSeq(rows, LAMBDA r : r[coluna] = k)

\* a plausible slip: the value of the first row of the group
PrimeiroValor(rows, col) == rows[1][col]

\* the aggregation "max" of a column: NaN and None are skipped
MaxSkipNa(rows, col) ==
    LET ints == {rows[i][col].v : i \in {j \in 1..Len(rows) : rows[j][col].kind = "int"}}
    IN  IF ints = {} THEN PyNaN
        ELSE PyInt(CHOOSE m \in ints : \A n \in ints : n <= m)

\* the aggregation "first" of a column: the first non-null value
FirstNotNull(rows, col) ==
    LET idx == {j \in 1..Len(rows) : rows[j][col].kind = "int"}
    IN  IF idx = {} THEN PyNaN
        ELSE rows[CHOOSE i \in idx : \A j \in idx : i <= j][col]

\* the aggregation sum() of a column: NaN and None are skipped
RECURSIVE SumSkipNa(_, _)
SumSkipNa(rows, col) ==
    IF rows = <<>> THEN 0
    ELSE (IF Head(rows)[col].kind = "int" THEN Head(rows)[col].v ELSE 0)
         + SumSkipNa(Tail(rows), col)

\* pop.groupby("cod_mun_ibge_7", as_index=False).agg({"populacao": "max", "ano": "first"})
groupby_populacao(pop) ==
    IF ~({coluna, "populacao", "ano"} \subseteq pop.columns) THEN Raise("KeyError")
    ELSE LET ks == GroupKeys(pop.rows)
         IN  [kind |-> "df", columns |-> {coluna, "populacao", "ano"},
              rows |-> [i \in 1..Len(ks) |->
                           [cod_mun_ibge_7 |-> ks[i],
                            populacao |-> MaxSkipNa(Group(pop.rows, ks[i]), "populacao"),
                            ano |-> FirstNotNull(Group(pop.rows, ks[i]), "ano")]]]

\* a metric source that takes the merge branch
Present(src) == src.kind = "df" /\ ~empty(src) /\ coluna \in src.columns

\* groupby(...).size() of key k after the year filter, left-merged with
\* fillna(0).astype(int): the number of the source's rows of k, 0 without rows
CountOf(src, a, k) == Len(Group(FilterAno(src, a).rows, k))

\* the same for a source that may carry a pre-aggregated count column col:
\* the sum of col when the source has it, else the number of its rows of k
TotalOf(src, a, col, k) ==
    LET f == FilterAno(src, a)
    IN  IF col \in f.columns THEN SumSkipNa(Group(f.rows, k), col)
        ELSE CountOf(src, a, k)

\* a plausible slip: the rate per 1,000 instead of per 100,000
taxa_per_1000(total, pop) ==
    IF pop.kind # "int" THEN PyNaN
    ELSE IF pop.v = 0 THEN (IF total = 0 THEN PyNaN ELSE PyInf)
    ELSE PyFloat((total * 100000) \div pop.v, 100)

\* (total / populacao * 100_000).round(2), in hundredths: division by 0
\* gives inf (0/0 NaN), a NaN population gives NaN, ties round to even
taxa(total, pop) ==
    IF pop.kind # "int" THEN PyNaN
    ELSE IF pop.v = 0
         THEN (IF total = 0 THEN PyNaN ELSE IF total > 0 THEN PyInf ELSE PyNegInf)
    ELSE LET p  == IF pop.v < 0 THEN -pop.v ELSE pop.v
             n  == IF total < 0 THEN -total ELSE total
             sg == IF (pop.v < 0) # (total < 0) THEN -1 ELSE 1
             n1 == n * 100000
             n2 == (n1 % p) * 100
             h0 == (n1 \div p) * 100 + (n2 \div p)
             r2 == n2 % p
             h  == IF 2 * r2 > p \/ (2 * r2 = p /\ h0 % 2 = 1) THEN h0 + 1 ELSE h0
         IN  PyFloat(sg * h, 100)

\* a plausible slip: the rate of an absent metric left null
taxa_ausente_nula == PyNaN

\* gold["taxa_..."] = 0.0 of the branch taken when the source is absent
taxa_ausente == PyFloat(0, 100)

-----------------------------------------------------------------------------
(* Indicator aggregator *)

GoldColumns ==
    {coluna, "populacao", "ano", "total_obitos", "taxa_obitos_100k", "total_internacoes",
     "taxa_internacao_100k", "nascidos_vivos", "data_carga"}

\* gold.py GoldTransform.indicadores_saude_por_municipio; now is the value
\* of datetime.now() at the call
\* a plausible slip: the year of the row taken from the clock as well
carimbar_ano(row, now) ==
    [c \in DOMAIN row \cup {"data_carga"} |->
        IF c \in {"data_carga", "ano"} THEN PyInt(now) ELSE row[c]]

\* gold["data_carga"] = datetime.now().isoformat()
carimbar(row, now) ==
    [c \in DOMAIN row \cup {"data_carga"} |->
        IF c = "data_carga" THEN PyInt(now) ELSE row[c]]

indicadores_saude_por_municipio(pop, ob, ih, nv, a, now) ==
    IF empty(pop) THEN EmptyTable
    ELSE LET g == groupby_populacao(FilterAno(pop, a))
         IN  IF g.kind = "raise" THEN g
             ELSE [kind |-> "df", columns |-> GoldColumns,
                   rows |-> [i \in 1..Len(g.rows) |->
                     LET r == g.rows[i]
                         k == r.cod_mun_ibge_7
                         t_ob == IF Present(ob) THEN TotalOf(ob, a, "total_obitos", k) ELSE 0
                         t_ih == IF Present(ih) THEN CountOf(ih, a, k) ELSE 0
                         t_nv == IF Present(nv) THEN TotalOf(nv, a, "nascidos_vivos", k) ELSE 0
                     IN  carimbar(
                         [cod_mun_ibge_7 |-> k,
                          populacao |-> r.populacao,
                          ano |-> r.ano,
                          total_obitos |-> PyInt(t_ob),
                          taxa_obitos_100k |->
                              IF Present(ob) THEN taxa(t_ob, r.populacao) ELSE taxa_ausente,
                          total_internacoes |-> PyInt(t_ih),
                          taxa_internacao_100k |->
                              IF Present(ih) THEN taxa(t_ih, r.populacao) ELSE taxa_ausente,
                          nascidos_vivos |-> PyInt(t_nv)], now)]]

-----------------------------------------------------------------------------
(* Inputs of the aggregator *)

\* rows in all the input tables of one call, taken together
MaxRows == 3

KA == PyStr(<<"3", "5", "5", "0", "3", "0", "8">>)
KB == PyStr(<<"1", "1", "0", "0", "0", "1", "5">>)
KC == PyStr(<<"5", "3", "0", "0", "1", "0", "8">>)

Project(r, cols) == [c \in cols |-> r[c]]

PopRowSamples ==
    {[cod_mun_ibge_7 |-> k, ano |-> PyInt(o[1]), populacao |-> o[2]] :
        k \in {KA, KB},
        o \in {<<2024, PyInt(12000000)>>, <<2024, PyInt(256)>>, <<2024, PyInt(0)>>,
               <<2024, PyNaN>>, <<2023, PyInt(256)>>}}

\* rows of a population table that has no year column
PopRowSamplesNoYear ==
    {[cod_mun_ibge_7 |-> k, populacao |-> PyInt(256)] : k \in {KA, KB}}

EventRowSamples ==
    {[cod_mun_ibge_7 |-> k, ano |-> PyInt(o[1]), n |-> PyInt(o[2])] :
        k \in {KA, KC}, o \in {<<2024, 5>>, <<2024, 1000>>, <<2023, 5>>}}

SeqsOf(S, n) == [1..n -> S]

\* a table of n rows over the columns cols, the count column named col
EventTables(n, cols, col) ==
    {[kind |-> "df", columns |-> cols,
      rows |-> [i \in 1..n |->
                   [c \in cols |-> IF c = col THEN f[i].n ELSE f[i][c]]]] :
        f \in SeqsOf(EventRowSamples, n)}

\* the sources of one metric with n rows: None for n = 0
SourcesOf(n, col) ==
    IF n = 0 THEN {PyNone}
    ELSE EventTables(n, {coluna, "ano", col}, col)
         \cup EventTables(n, {coluna, "ano"}, col)
         \cup EventTables(n, {coluna}, col)

\* the population tables of n rows; without rows, with and without columns
PopTables(n) ==
    {[kind |-> "df", columns |-> {coluna, "ano", "populacao"}, rows |-> f] :
        f \in SeqsOf(PopRowSamples, n)}
        \cup (IF n = 0 THEN {EmptyTable} ELSE {})
        \cup (IF n = 0 THEN {}
              ELSE {[kind |-> "df", columns |-> {coluna, "populacao"}, rows |-> f] :
                       f \in SeqsOf(PopRowSamplesNoYear, n)})

RowSplits ==
    {s \in [{"pop", "ob", "ih", "nv"} -> 0..MaxRows] :
        s["pop"] + s["ob"] + s["ih"] + s["nv"] <= MaxRows}

InitAggregate ==
    /\ pc = "start"
    /\ \E s \in RowSplits :
        /\ df_populacao \in PopTables(s["pop"])
        /\ df_obitos \in SourcesOf(s["ob"], "total_obitos")
        /\ df_internacoes \in SourcesOf(s["ih"], "total_internacoes")
        /\ df_nascidos \in SourcesOf(s["nv"], "nascidos_vivos")
    /\ ano \in {PyInt(2024), PyNone}
    /\ gold = PyNone
    /\ clock = 0
    /\ NormIdle
    /\ StdIdle
    /\ PipeIdle

\* one call of indicadores_saude_por_municipio; the call is made a second
\* time on the same tables
Aggregate ==
    /\ pc \in {"start", "aggregated"}
    /\ gold' = indicadores_saude_por_municipio(df_populacao, df_obitos, df_internacoes,
                                                df_nascidos, ano, clock)
    /\ clock' = clock + 1
    /\ pc' = IF pc = "start" THEN "aggregated" ELSE "repeated"
    /\ UNCHANGED <<df_populacao, df_obitos, df_internacoes, df_nascidos, ano,
                   normVars, stdVars, pipeVars>>

NextAggregate == Aggregate

SpecAggregate == InitAggregate /\ [][NextAggregate]_vars

-----------------------------------------------------------------------------
(* Claims on the aggregator *)

Aggregated == pc = "aggregated" /\ gold.kind = "df"

GoldKeys == {gold.rows[i].cod_mun_ibge_7 : i \in 1..Len(gold.rows)}

\* the population keys of the target year (of every year without a target)
SpineKeys ==
    {df_populacao.rows[i].cod_mun_ibge_7 :
        i \in {j \in 1..Len(df_populacao.rows) :
                  ano = PyNone \/ df_populacao.rows[j].ano = ano}}

\* key k has no row in the source
NoEventRows(src, k) == \A i \in 1..Len(src.rows) : src.rows[i].cod_mun_ibge_7 # k

Known(p) == p.kind = "int" /\ p.v # 0

ZeroRate == PyFloat(0, 100)

\* C6 (as claimed): with a metric source present the output has one row per
\* population key of the target year and no other, and a key without event
\* rows has total 0 and rate 0.0 for that metric.
C6_LeftJoinZeroFill ==
    (Aggregated /\ (df_obitos # PyNone \/ df_internacoes # PyNone
                     \/ df_nascidos # PyNone)) =>
        /\ GoldKeys = SpineKeys
        /\ Len(gold.rows) = Cardinality(SpineKeys)
        /\ \A i \in 1..Len(gold.rows) :
            LET g == gold.rows[i]
            IN  /\ (df_obitos # PyNone /\ NoEventRows(df_obitos, g.cod_mun_ibge_7)) =>
                       g.total_obitos = PyInt(0) /\ g.taxa_obitos_100k = ZeroRate
                /\ (df_internacoes # PyNone
                    /\ NoEventRows(df_internacoes, g.cod_mun_ibge_7)) =>
                       g.total_internacoes = PyInt(0) /\ g.taxa_internacao_100k = ZeroRate
                /\ (df_nascidos # PyNone /\ NoEventRows(df_nascidos, g.cod_mun_ibge_7)) =>
                       g.nascidos_vivos = PyInt(0)

\* C6 (amended): as above, the rate being 0.0 for the keys whose population
\* is present and not 0.
C6_LeftJoinZeroFillKnownPopulation ==
    (Aggregated /\ (df_obitos # PyNone \/ df_internacoes # PyNone
                     \/ df_nascidos # PyNone)) =>
        /\ GoldKeys = SpineKeys
        /\ Len(gold.rows) = Cardinality(SpineKeys)
        /\ \A i \in 1..Len(gold.rows) :
            LET g == gold.rows[i]
            IN  /\ (df_obitos # PyNone /\ NoEventRows(df_obitos, g.cod_mun_ibge_7)) =>
                       /\ g.total_obitos = PyInt(0)
                       /\ Known(g.populacao) => g.taxa_obitos_100k = ZeroRate
                /\ (df_internacoes # PyNone
                    /\ NoEventRows(df_internacoes, g.cod_mun_ibge_7)) =>
                       /\ g.total_internacoes = PyInt(0)
                       /\ Known(g.populacao) => g.taxa_internacao_100k = ZeroRate
                /\ (df_nascidos # PyNone /\ NoEventRows(df_nascidos, g.cod_mun_ibge_7)) =>
                       g.nascidos_vivos = PyInt(0)

\* deaths are reported for KA of the target year only; KB, with a known
\* population and no deaths, is in the output with total 0 and rate 0.0
C6_Witness ==
    /\ Aggregated
    /\ ano = PyInt(2024)
    /\ df_obitos # PyNone
    /\ ~NoEventRows(df_obitos, KA)
    /\ GoldKeys = {KA, KB}
    /\ \E i \in 1..Len(gold.rows) :
        /\ gold.rows[i].cod_mun_ibge_7 = KB
        /\ gold.rows[i].populacao = PyInt(256)
        /\ gold.rows[i].total_obitos = PyInt(0)
        /\ gold.rows[i].taxa_obitos_100k = ZeroRate

C11_EmptyPopulationEmptyResult ==
    (pc = "aggregated" /\ (df_populacao.columns = {} \/ df_populacao.rows = <<>>)) =>
        gold.kind = "df" /\ gold.rows = <<>>

\* no population, deaths and births reported, a target year
C11_Witness ==
    /\ pc = "aggregated"
    /\ df_populacao.rows = <<>>
    /\ df_obitos # PyNone
    /\ df_nascidos # PyNone
    /\ ano = PyInt(2024)
    /\ gold = EmptyTable

\* the population figures of the key k in the rows of the target year
PopulacoesDe(k) ==
    {df_populacao.rows[i].populacao.v :
        i \in {j \in 1..Len(df_populacao.rows) :
                  /\ df_populacao.rows[j].cod_mun_ibge_7 = k
                  /\ df_populacao.rows[j].ano = ano
                  /\ df_populacao.rows[j].populacao.kind = "int"}}

\* C23: the table returned by a call with a target year and a population
\* table with rows has exactly one row for each population key of the target year, no two rows
\* with the same key and year, and the population of a row is the largest
\* figure among the population rows of its key and the year (missing when
\* none of them has a figure).
C23_OneRowPerKeyMaxPopulation ==
    (Aggregated /\ ano # PyNone /\ df_populacao.rows # <<>>) =>
        /\ GoldKeys = SpineKeys
        /\ Len(gold.rows) = Cardinality(SpineKeys)
        /\ \A i, j \in 1..Len(gold.rows) :
              (gold.rows[i].cod_mun_ibge_7 = gold.rows[j].cod_mun_ibge_7
                  /\ gold.rows[i].ano = gold.rows[j].ano) => i = j
        /\ \A i \in 1..Len(gold.rows) :
              LET g == gold.rows[i]
                  figures == PopulacoesDe(g.cod_mun_ibge_7)
              IN  /\ g.ano = ano
                  /\ IF figures = {} THEN g.populacao = PyNaN
                     ELSE /\ g.populacao.kind = "int"
                          /\ g.populacao.v \in figures
                          /\ \A v \in figures : v <= g.populacao.v

\* the key KA loaded twice for 2024, the smaller figure first, and once
\* for 2023: one row, with the larger figure of 2024
C23_Witness ==
    /\ pc = "aggregated"
    /\ ano = PyInt(2024)
    /\ Len(df_populacao.rows) = 3
    /\ df_populacao.rows[1] = [cod_mun_ibge_7 |-> KA, ano |-> PyInt(2024), populacao |-> PyInt(256)]
    /\ df_populacao.rows[2] = [cod_mun_ibge_7 |-> KA, ano |-> PyInt(2023), populacao |-> PyInt(256)]
    /\ df_populacao.rows[3] = [cod_mun_ibge_7 |-> KA, ano |-> PyInt(2024), populacao |-> PyInt(12000000)]
    /\ Len(gold.rows) = 1
    /\ gold.rows[1].populacao = PyInt(12000000)

\* the rows of the source src for the key k, of the target year when there
\* is one and the source has a year column
RowsOf(src, k) ==
    SelectSeq(src.rows, LAMBDA r :
        /\ r[coluna] = k
        /\ (ano # PyNone /\ "ano" \in src.columns) => r.ano = ano)

\* the total of the key k in the source src whose count column is col
Expected(src, col, k) ==
    IF col \in src.columns THEN SumSkipNa(RowsOf(src, k), col)
    ELSE Len(RowsOf(src, k))

\* C24: the total of a key for a metric whose source is given is the sum
\* of the source's count column over the rows of the key when the source
\* has that column, and the number of the rows of the key when it has not:
\* deaths, hospitalizations and births alike.
C24_SumOrCount ==
    Aggregated =>
        \A i \in 1..Len(gold.rows) :
            LET g == gold.rows[i]
            IN  /\ df_obitos # PyNone =>
                      g.total_obitos =
                          PyInt(Expected(df_obitos, "total_obitos", g.cod_mun_ibge_7))
                /\ df_internacoes # PyNone =>
                      g.total_internacoes =
                          PyInt(Expected(df_internacoes, "total_internacoes", g.cod_mun_ibge_7))
                /\ df_nascidos # PyNone =>
                      g.nascidos_vivos =
                          PyInt(Expected(df_nascidos, "nascidos_vivos", g.cod_mun_ibge_7))

\* the rows of the population table that count for the call: those of the
\* target year when the table has a year column, else all
PopRowsUsed ==
    SelectSeq(df_populacao.rows, LAMBDA r : "ano" \in df_populacao.columns => r.ano = ano)

\* C25: a call with a target year returns a table built from the rows of
\* the target year of every input that has a year column and from all the
\* rows of an input that has none: its keys are those of the population
\* rows that count, and the totals of a key come from the rows of the
\* sources that count.
C25_YearFilterOrUnfiltered ==
    (pc = "aggregated" /\ ano # PyNone /\ df_populacao.rows # <<>>) =>
        /\ gold.kind = "df"
        /\ GoldKeys = {PopRowsUsed[i].cod_mun_ibge_7 : i \in 1..Len(PopRowsUsed)}
        /\ \A i \in 1..Len(gold.rows) :
              LET g == gold.rows[i]
                  k == g.cod_mun_ibge_7
              IN  /\ \/ g.populacao = PyNaN
                     \/ \E j \in 1..Len(PopRowsUsed) :
                           /\ PopRowsUsed[j].cod_mun_ibge_7 = k
                           /\ PopRowsUsed[j].populacao = g.populacao
                  /\ df_obitos # PyNone =>
                        g.total_obitos = PyInt(Expected(df_obitos, "total_obitos", k))
                  /\ df_internacoes # PyNone =>
                        g.total_internacoes = PyInt(Len(RowsOf(df_internacoes, k)))
                  /\ df_nascidos # PyNone =>
                        g.nascidos_vivos = PyInt(Expected(df_nascidos, "nascidos_vivos", k))


\* the (key, year, population, totals, rates) tuples of a result
Tuples(g) ==
    IF g.kind # "df" THEN g
    ELSE {Project(g.rows[i], GoldColumns \ {"data_carga"}) : i \in 1..Len(g.rows)}

C8_ZeroPopulationNullRate ==
    pc = "aggregated" =>
        /\ gold.kind = "df"
        /\ \A i \in 1..Len(gold.rows) :
            LET g == gold.rows[i]
            IN  (g.populacao.kind = "int" /\ g.populacao.v <= 0) =>
                    /\ g.total_obitos.v > 0 => g.taxa_obitos_100k = PyNaN
                    /\ g.total_internacoes.v > 0 => g.taxa_internacao_100k = PyNaN

\* rate r (hundredths) is total / p * 100000 to within half a hundredth
IsRate(r, total, p) ==
    /\ r.kind = "float" /\ r.cls = "fin" /\ r.den = 100
    /\ LET q  == (total * 100000) \div p
           rm == (total * 100000) % p
           h2 == r.num - 100 * q
           d  == h2 * p - 100 * rm
       IN  /\ h2 \in 0..100
           /\ (IF d < 0 THEN -d ELSE d) <= p \div 2

ScenarioA ==
    /\ df_populacao.rows =
           <<[cod_mun_ibge_7 |-> KA, ano |-> PyInt(2024), populacao |-> PyInt(12000000)]>>
    /\ df_obitos # PyNone
    /\ df_obitos.rows =
           <<[cod_mun_ibge_7 |-> KA, ano |-> PyInt(2024), total_obitos |-> PyInt(1000)]>>
    /\ df_nascidos = PyNone
    /\ ano = PyInt(2024)

\* C10: with a positive population and a present source the rate is
\* count / population * 100000 rounded to 2 decimals; Scenario A gives
\* 1000 deaths, rate 8.33 and 0 births.
C10_RatePer100k ==
    Aggregated =>
        /\ \A i \in 1..Len(gold.rows) :
            LET g == gold.rows[i]
            IN  (g.populacao.kind = "int" /\ g.populacao.v > 0) =>
                    /\ Present(df_obitos) =>
                           IsRate(g.taxa_obitos_100k, g.total_obitos.v, g.populacao.v)
                    /\ Present(df_internacoes) =>
                           IsRate(g.taxa_internacao_100k, g.total_internacoes.v,
                                  g.populacao.v)
        /\ ScenarioA =>
               /\ Len(gold.rows) = 1
               /\ gold.rows[1].cod_mun_ibge_7 = KA
               /\ gold.rows[1].ano = PyInt(2024)
               /\ gold.rows[1].populacao = PyInt(12000000)
               /\ gold.rows[1].total_obitos = PyInt(1000)
               /\ gold.rows[1].taxa_obitos_100k = PyFloat(833, 100)
               /\ gold.rows[1].nascidos_vivos = PyInt(0)

C10_Witness ==
    /\ Aggregated
    /\ ScenarioA
    /\ gold.rows[1].taxa_obitos_100k = PyFloat(833, 100)

-----------------------------------------------------------------------------
(* IBGE connector (ibge.py).  An HTTP response is a raise (the request or  *)
(* raise_for_status failed) or [kind |-> "json", data |-> ...].  A list of  *)
(* codes is [kind |-> "list", items |-> <<codes>>].                        *)

RequestException == Raise("RequestException")

Json(d) == [kind |-> "json", data |-> d]

PyList(xs) == [kind |-> "list", items |-> xs]

\* int(s) of a str of decimal digits
RECURSIVE int_of_digits(_)
int_of_digits(s) ==
    IF s = <<>> THEN 0
    ELSE 10 * int_of_digits(SubSeq(s, 1, Len(s) - 1))
         + (CHOOSE i \in 0..9 : DigitChar[i + 1] = s[Len(s)])

\* pd.DataFrame(rows) of a list of dicts with the keys cols
DataFrame(rows, cols) ==
    IF rows = <<>> THEN EmptyTable
    ELSE [kind |-> "df", columns |-> cols, rows |-> rows]

MunColumns == {coluna, "nome_municipio", "sigla_uf", "cod_uf"}

PopColumns == {coluna, "ano", "populacao"}

\* the rows of the items that have an id and a name
rows_municipios(data) ==
    LET items == SelectSeq(data, LAMBDA it : it.id # 0 /\ it.nome.s # <<>>)
    IN  [i \in 1..Len(items) |->
            [cod_mun_ibge_7 |-> PyStr(zfill(str(items[i].id), 7)),
             nome_municipio |-> items[i].nome,
             sigla_uf |-> items[i].sigla_uf,
             cod_uf |-> items[i].cod_uf]]

\* a plausible slip: the failure of the request logged and swallowed
listar_municipios_swallow(resp) ==
    IF resp.kind = "raise" THEN EmptyTable
    ELSE DataFrame(rows_municipios(resp.data), MunColumns)

\* IBGEConnector.listar_municipios
listar_municipios(resp) ==
    IF resp.kind = "raise" THEN resp
    ELSE DataFrame(rows_municipios(resp.data), MunColumns)

\* str.replace(".", "").replace(",", ".")
replace_separators(s) ==
    LET nodots == SelectSeq(s, LAMBDA c : c # ".")
    IN  [i \in 1..Len(nodots) |-> IF nodots[i] = "," THEN "." ELSE nodots[i]]

\* float(s) of a str over the decimal digits and "-"
float_of_str(s) ==
    IF s # <<>> /\ IsDecimal(s) THEN PyFloat(int_of_digits(s), 1)
    ELSE IF Len(s) > 1 /\ Head(s) = "-" /\ IsDecimal(Tail(s))
         THEN PyFloat(-int_of_digits(Tail(s)), 1)
    ELSE Raise("ValueError")

\* int(float(str(val).replace(".", "").replace(",", ".") or 0)), None when
\* the conversion raises ValueError
populacao_of(val) ==
    LET s == replace_separators(val.s)
        f == IF s = <<>> THEN PyFloat(0, 1) ELSE float_of_str(s)
    IN  IF f.kind = "raise" THEN PyNaN ELSE int(f)

\* max(anos_disponiveis, key=int) of the keys that are 4 digits
ano_mais_recente(serie) ==
    LET anos == {k \in DOMAIN serie : Len(k) = 4 /\ \A i \in 1..4 : isdigit(k[i])}
    IN  IF anos = {} THEN PyNone
        ELSE PyStr(CHOOSE k \in anos :
                      \A j \in anos : int_of_digits(j) <= int_of_digits(k))

\* a plausible slip: no substitute for a year that the series lacks
valor_da_serie_exato(serie, a) ==
    IF str(a) \in DOMAIN serie THEN serie[str(a)] ELSE PyNone

\* the value taken from one series: that of the requested year, else that of
\* the most recent year of the series, else None
valor_da_serie(serie, a) ==
    IF str(a) \in DOMAIN serie THEN serie[str(a)]
    ELSE LET y == ano_mais_recente(serie)
         IN  IF y = PyNone THEN PyNone ELSE serie[y.s]

\* IBGEConnector._parse_resposta_populacao; data is the list of the series
\* of the response, each [id |-> locality id, serie |-> year -> value]
RECURSIVE _parse_resposta_populacao(_, _)
_parse_resposta_populacao(data, a) ==
    IF data = <<>> THEN <<>>
    ELSE LET serie == Head(data)
             val == valor_da_serie(serie.serie, a)
             rest == _parse_resposta_populacao(Tail(data), a)
         IN  IF serie.id = 0 \/ val = PyNone THEN rest
             ELSE <<[cod_mun_ibge_7 |-> PyStr(zfill(str(serie.id), 7)),
                     ano |-> PyInt(a),
                     populacao |-> populacao_of(val)]>> \o rest

\* IBGEConnector._obter_populacao_por_lista: one request per code, a failed
\* request is skipped; resps[i] is the response to the request of codigos[i]
RECURSIVE _rows_por_lista(_, _, _)
_rows_por_lista(n, a, resps) ==
    IF n = 0 THEN <<>>
    ELSE _rows_por_lista(n - 1, a, resps)
         \o (IF resps[n].kind = "raise" THEN <<>>
             ELSE _parse_resposta_populacao(resps[n].data, a))

\* codigos[:500]
LimiteLista == 500

_obter_populacao_por_lista(codigos, a, resps) ==
    DataFrame(_rows_por_lista(IF Len(codigos.items) < LimiteLista
                              THEN Len(codigos.items) ELSE LimiteLista, a, resps),
              PopColumns)

\* IBGEConnector.obter_populacao_municipios; codigos is None or a list
obter_populacao_municipios(a, codigos, resps) ==
    IF codigos # PyNone /\ codigos.items # <<>>
    THEN _obter_populacao_por_lista(codigos, a, resps)
    ELSE IF resps[1].kind = "raise" THEN resps[1]
    ELSE DataFrame(_parse_resposta_populacao(resps[1].data, a), PopColumns)

-----------------------------------------------------------------------------
(* Silver readers and the SQLite store (silver.py, gold.py, db.py).  A     *)
(* parquet file gives back the table written to it.                        *)

\* SilverTransform.bronze_ibge_municipios_para_silver; latest is the most
\* recent Bronze file of municipalities, None without one
bronze_ibge_municipios_para_silver(latest) ==
    IF latest = PyNone THEN EmptyTable ELSE padronizar_codigo_municipio(latest)

\* SilverTransform.bronze_ibge_populacao_para_silver
bronze_ibge_populacao_para_silver(latest, a) ==
    IF latest = PyNone THEN EmptyTable
    ELSE LET d == padronizar_codigo_municipio(latest)
         IN  IF d.kind = "raise" THEN d
             ELSE IF a # PyNone /\ "ano" \in d.columns
                  THEN [d EXCEPT !.rows = SelectSeq(d.rows, LAMBDA r : r.ano = a)]
             ELSE d

\* the value SQLite stores for a bound parameter: NULL for None and NaN
sql(x) == IF isna(x) THEN PyNone ELSE x

\* the id of the next row of a table with INTEGER PRIMARY KEY AUTOINCREMENT
next_id(tbl) ==
    IF tbl = <<>> THEN 1
    ELSE 1 + (CHOOSE m \in {tbl[i].id : i \in 1..Len(tbl)} :
                 \A i \in 1..Len(tbl) : tbl[i].id <= m)

\* a plausible slip: INSERT OR IGNORE, the first write of a key wins
RECURSIVE replace_dim_ignore(_, _)
replace_dim_ignore(dim, rows) ==
    IF rows = <<>> THEN dim
    ELSE LET r == Head(rows)
         IN  replace_dim_ignore(
                 IF \E d \in dim : d.cod_mun_ibge_7 = r.cod_mun_ibge_7 THEN dim
                 ELSE dim \cup {[c \in MunColumns |-> sql(r[c])]},
                 Tail(rows))

\* INSERT OR REPLACE INTO dim_municipio: PRIMARY KEY (cod_mun_ibge_7)
RECURSIVE replace_dim(_, _)
replace_dim(dim, rows) ==
    IF rows = <<>> THEN dim
    ELSE LET r == Head(rows)
         IN  replace_dim({d \in dim : d.cod_mun_ibge_7 # r.cod_mun_ibge_7}
                             \cup {[c \in MunColumns |-> sql(r[c])]},
                         Tail(rows))

\* a plausible slip: INSERT OR REPLACE on a key (cod_mun_ibge_7, ano)
RECURSIVE insert_silver_replace(_, _, _)
insert_silver_replace(tbl, rows, now) ==
    IF rows = <<>> THEN tbl
    ELSE LET r == Head(rows)
             kept == SelectSeq(tbl, LAMBDA s :
                         ~(s.cod_mun_ibge_7 = r.cod_mun_ibge_7 /\ s.ano = sql(r.ano)))
         IN  insert_silver_replace(Append(kept, [id |-> next_id(tbl),
                                                 cod_mun_ibge_7 |-> r.cod_mun_ibge_7,
                                                 ano |-> sql(r.ano),
                                                 populacao |-> sql(r.populacao),
                                                 data_carga |-> PyInt(now)]),
                                   Tail(rows), now)

\* INSERT INTO silver_ibge_populacao, one row per row of the table
RECURSIVE insert_silver(_, _, _)
insert_silver(tbl, rows, now) ==
    IF rows = <<>> THEN tbl
    ELSE LET r == Head(rows)
         IN  insert_silver(Append(tbl, [id |-> next_id(tbl),
                                        cod_mun_ibge_7 |-> r.cod_mun_ibge_7,
                                        ano |-> sql(r.ano),
                                        populacao |-> sql(r.populacao),
                                        data_carga |-> PyInt(now)]),
                           Tail(rows), now)

\* The body of a "with get_connection() as conn" block ends as
\* [store, exc]: the store as the connection sees it, uncommitted writes
\* included, and the exception that ended the body, None when it ran to
\* its end.

\* a plausible slip: no rollback, the writes made before the exception stay
get_connection_sem_rollback(before, body) == body

\* db.py get_connection around a body that started from the store before:
\* commit when the body ran to its end, rollback and the same exception
\* when it raised
get_connection(before, body) ==
    IF body.exc # PyNone THEN [store |-> before, exc |-> body.exc]
    ELSE [store |-> body.store, exc |-> PyNone]

\* the rows of a population table before the first one that violates
\* NOT NULL (cod_mun_ibge_7, ano); all of them when none does
RECURSIVE antes_do_nulo(_)
antes_do_nulo(rows) ==
    IF rows = <<>> THEN <<>>
    ELSE IF isna(Head(rows).ano) \/ isna(Head(rows)[coluna]) THEN <<>>
    ELSE <<Head(rows)>> \o antes_do_nulo(Tail(rows))

\* silver.py lines 93 to 107 on the store db: INSERT OR REPLACE INTO
\* dim_municipio
gravar_municipios(db, df_mun_s) ==
    IF empty(df_mun_s) THEN db
    ELSE [db EXCEPT
            !.dim_municipio =
                replace_dim(@, [i \in 1..Len(df_mun_s.rows) |->
                        [c \in MunColumns |->
                            IF c \in df_mun_s.columns
                            THEN df_mun_s.rows[i][c] ELSE PyNone]])]

\* silver.py lines 109 to 120 on the store db: INSERT INTO
\* silver_ibge_populacao; executemany stops at the first row that violates
\* a constraint
gravar_populacao(db, df_pop_s, now) ==
    IF empty(df_pop_s) THEN [store |-> db, exc |-> PyNone]
    ELSE IF ~(PopColumns \subseteq df_pop_s.columns)
    THEN [store |-> db, exc |-> Raise("KeyError")]
    ELSE [store |-> [db EXCEPT !.silver_ibge_populacao =
                        insert_silver(@, antes_do_nulo(df_pop_s.rows), now)],
          exc |-> IF Len(antes_do_nulo(df_pop_s.rows)) < Len(df_pop_s.rows)
                  THEN Raise("IntegrityError") ELSE PyNone]

\* the body of persistir_silver_no_banco (silver.py lines 89 to 120)
corpo_silver(db, df_mun_s, df_pop_s, now) ==
    IF ~empty(df_mun_s) /\ ~({coluna, "nome_municipio", "sigla_uf"}
                                    \subseteq df_mun_s.columns)
    THEN [store |-> db, exc |-> Raise("KeyError")]
    ELSE gravar_populacao(gravar_municipios(db, df_mun_s), df_pop_s, now)

\* SilverTransform.persistir_silver_no_banco(df_mun_s, df_pop_s, None)
\* on the store db: the store after the call and the exception it raised
persistir_silver_no_banco(db, df_mun_s, df_pop_s, now) ==
    get_connection(db, corpo_silver(db, df_mun_s, df_pop_s, now))

\* float(x) of an int or a float
float(x) == IF x.kind = "int" THEN PyFloat(x.v, 1) ELSE x

\* row.get(col, 0)
get(r, col) == IF col \in DOMAIN r THEN r[col] ELSE PyInt(0)

\* the parameters bound by persistir_gold_no_banco for one row, in the
\* order in which they are evaluated
gold_params(r) ==
    <<IF coluna \in DOMAIN r THEN r[coluna] ELSE Raise("KeyError"),
      IF "ano" \in DOMAIN r THEN int(r.ano) ELSE Raise("KeyError"),
      IF "populacao" \in DOMAIN r THEN int(r.populacao) ELSE Raise("KeyError"),
      int(get(r, "total_internacoes")),
      int(get(r, "total_obitos")),
      int(get(r, "nascidos_vivos")),
      float(get(r, "taxa_internacao_100k")),
      float(get(r, "taxa_obitos_100k"))>>

\* the first exception raised while the parameters are evaluated, None
\* when there is none
first_raise(ps) ==
    LET bad == {i \in 1..Len(ps) : ps[i].kind = "raise"}
    IN  IF bad = {} THEN PyNone ELSE ps[CHOOSE i \in bad : \A j \in bad : i <= j]

\* the rows of the Gold table that a new row conflicts with: the table's
\* only uniqueness constraint is PRIMARY KEY (id)
gold_conflict(s, new) == s.id = new.id

\* INSERT OR REPLACE INTO gold_indicadores_saude_municipio, row by row; the
\* first exception ends the loop, with the rows before it written
RECURSIVE insert_or_replace_gold(_, _, _)
insert_or_replace_gold(tbl, rows, now) ==
    IF rows = <<>> THEN [store |-> tbl, exc |-> PyNone]
    ELSE LET ps == gold_params(Head(rows))
             e == first_raise(ps)
             new == [id |-> next_id(tbl),
                     cod_mun_ibge_7 |-> ps[1],
                     ano |-> ps[2],
                     populacao |-> ps[3],
                     total_internacoes |-> ps[4],
                     total_obitos |-> ps[5],
                     nascidos_vivos |-> ps[6],
                     taxa_internacao_100k |-> sql(ps[7]),
                     taxa_obitos_100k |-> sql(ps[8]),
                     data_carga |-> PyInt(now)]
         IN  IF e # PyNone THEN [store |-> tbl, exc |-> e]
             ELSE IF isna(ps[1]) THEN [store |-> tbl, exc |-> Raise("IntegrityError")]
             ELSE insert_or_replace_gold(
                      Append(SelectSeq(tbl, LAMBDA s : ~gold_conflict(s, new)), new),
                      Tail(rows), now)

\* GoldTransform.persistir_gold_no_banco(df) on the Gold table tbl: the table
\* after the call and the exception it raised
persistir_gold_no_banco(tbl, d, now) ==
    IF empty(d) THEN [store |-> tbl, exc |-> PyNone]
    ELSE get_connection(tbl, insert_or_replace_gold(tbl, d.rows, now))

-----------------------------------------------------------------------------
(* Vital events through PySUS (datasus_pysus_fallback.py).  A source is    *)
(* [pysus, download]: whether the library was imported, and what download  *)
(* gives, an exception or the list of the files; a file is an exception    *)
(* when it cannot be read, or the table read from it.                      *)

\* the municipality column of a file (lines 62 to 69); "" when it has none
col_mun(f, extra) ==
    IF "CODMUNRES" \in f.columns THEN "CODMUNRES"
    ELSE IF "codmunres" \in f.columns THEN "codmunres"
    ELSE IF extra \in f.columns THEN extra ELSE ""

\* the row of a key with its count and the year
linha_total(k, a, total, n) ==
    [c \in {coluna, total, "ano"} |->
        IF c = coluna THEN k ELSE IF c = "ano" THEN PyInt(a) ELSE PyInt(n)]

\* lines 71 to 74: the rows by key of the normalized keys of a file with
\* their size; None when the normalization of a value raised
contar_chaves(keys, a, total) ==
    IF \E i \in 1..Len(keys) : keys[i].kind = "raise" THEN PyNone
    ELSE LET ks == SortKeys({keys[i] : i \in 1..Len(keys)} \ {PyNone})
         IN  [kind |-> "df", columns |-> {coluna, total, "ano"},
              rows |-> [i \in 1..Len(ks) |->
                  linha_total(ks[i], a, total,
                      Len(SelectSeq(keys, LAMBDA k : k = ks[i])))]]

\* lines 59 to 76 for one file: None when the file is skipped or its
\* processing fails
agregar_arquivo(f, a, extra, total) ==
    IF f.kind = "raise" THEN PyNone
    ELSE IF col_mun(f, extra) = "" THEN PyNone
    ELSE contar_chaves([i \in 1..Len(f.rows) |-> _codigo_7(f.rows[i][col_mun(f, extra)])],
                       a, total)

\* pd.concat(all_dfs, ignore_index=True)
RECURSIVE concat(_)
concat(dfs) ==
    IF dfs = <<>> THEN <<>> ELSE Head(dfs).rows \o concat(Tail(dfs))

\* a plausible slip: the files after the first one are dropped
all_dfs_first(aggs) ==
    LET kept == SelectSeq(aggs, LAMBDA d : d # PyNone)
    IN  IF kept = <<>> THEN <<>> ELSE <<Head(kept)>>

\* all_dfs: the tables of the files that were processed
all_dfs_of(aggs) == SelectSeq(aggs, LAMBDA d : d # PyNone)

\* line 80: out.groupby(["cod_mun_ibge_7", "ano"])[total].sum()
somar_por_chave(out, a, total) ==
    [kind |-> "df", columns |-> {coluna, "ano", total},
     rows |-> [i \in 1..Len(GroupKeys(out)) |->
         linha_total(GroupKeys(out)[i], a, total,
                     SumSkipNa(Group(out, GroupKeys(out)[i]), total))]]

\* lines 77 to 82: nothing when no file was processed
somar_arquivos(all_dfs, a, total) ==
    IF all_dfs = <<>> THEN EmptyTable
    ELSE somar_por_chave(concat(all_dfs), a, total)

\* the body shared by the two extractors (lines 44 to 85 and 92 to 132):
\* extra is the third column probed, total the name of the count
extrair_pysus(fonte, a, extra, total) ==
    IF ~fonte.pysus THEN EmptyTable
    ELSE IF fonte.download.kind = "raise" THEN EmptyTable
    ELSE IF fonte.download.items = <<>> THEN EmptyTable
    ELSE somar_arquivos(
             all_dfs_of([i \in 1..Len(fonte.download.items) |->
                 agregar_arquivo(fonte.download.items[i], a, extra, total)]),
             a, total)

\* sim_obitos_por_municipio_pysus
sim_obitos_por_municipio_pysus(a, fonte) ==
    extrair_pysus(fonte, a, "CODESTAB", "total_obitos")

\* sinasc_nascidos_por_municipio_pysus
sinasc_nascidos_por_municipio_pysus(a, fonte) ==
    extrair_pysus(fonte, a, "CODMUNNASC", "nascidos_vivos")

-----------------------------------------------------------------------------
(* run_pipeline.py run_fase1 *)

\* AMOSTRA_PADRAO
AMOSTRA_PADRAO == 100

\* df_mun["cod_mun_ibge_7"].astype(int).head(n).tolist()
head_codigos(df_mun, n) ==
    PyList([i \in 1..(IF Len(df_mun.rows) < n THEN Len(df_mun.rows) ELSE n) |->
               int_of_digits(df_mun.rows[i][coluna].s)])

\* the list of codes passed to obter_populacao_municipios
codigos_of(df_mun, opt) ==
    LET n_amostra == IF opt.amostra_n # PyNone THEN opt.amostra_n.v ELSE AMOSTRA_PADRAO
    IN  IF opt.todos_municipios THEN PyNone
        ELSE IF opt.amostra_municipios # PyNone /\ opt.amostra_municipios.items # <<>>
             THEN opt.amostra_municipios
        ELSE IF Len(df_mun.rows) > n_amostra THEN head_codigos(df_mun, n_amostra)
        ELSE PyNone

\* an extractor's table as it is handed to the aggregator: its key column
\* standardized, None when the extractor returned an empty table
source_of(d) ==
    IF empty(d) THEN PyNone
    ELSE LET s == padronizar_codigo_municipio(d)
         IN  IF s.kind = "raise" THEN s ELSE IF empty(s) THEN PyNone ELSE s

\* the state of a run at its start: Bronze files, store, locals; done is
\* set when the run has returned or raised
RunState ==
    [kind |-> "state",
     bronze_municipios |-> bronze_municipios,
     bronze_populacao |-> bronze_populacao,
     dim_municipio |-> dim_municipio,
     silver_ibge_populacao |-> silver_ibge_populacao,
     gold_indicadores_saude_municipio |-> gold_indicadores_saude_municipio,
     df_mun |-> EmptyTable, df_pop |-> EmptyTable,
     df_mun_s |-> EmptyTable, df_pop_s |-> EmptyTable,
     df_obitos_s |-> PyNone, df_nascidos_s |-> PyNone, df_gold |-> PyNone,
     outcome |-> PyNone, requests |-> <<>>, done |-> FALSE]

raised(st, e) == [st EXCEPT !.outcome = e, !.done = TRUE]

\* a persistence call of the run is not guarded: its exception ends the run
propagar(r) == IF r.exc # PyNone THEN raised(r.store, r.exc) ELSE r.store

\* run_fase1 lines 44 to 49: the registry; reg is its response
fase_municipios(st, reg) ==
    LET df_mun == listar_municipios(reg)
        s == [st EXCEPT !.requests = Append(@, "municipios")]
    IN  IF df_mun.kind = "raise" THEN raised(s, df_mun)
        ELSE IF empty(df_mun) THEN [s EXCEPT !.done = TRUE]
        ELSE [s EXCEPT !.df_mun = df_mun, !.bronze_municipios = df_mun]

\* the requests of one call of obter_populacao_municipios: one per code of
\* the list, one for all the municipalities without a list
requests_populacao(codigos) ==
    IF codigos # PyNone /\ codigos.items # <<>>
    THEN [i \in 1..(IF Len(codigos.items) < LimiteLista THEN Len(codigos.items)
                    ELSE LimiteLista) |-> "populacao"]
    ELSE <<"populacao">>

\* run_fase1 lines 51 to 68: the population, with the retry for the year
\* before; r1 and r2 are the responses to the requests of the two calls
fase_populacao(st, a, opt, r1, r2) ==
    IF st.done THEN st
    ELSE LET codigos == codigos_of(st.df_mun, opt)
             p1 == obter_populacao_municipios(a, codigos, r1)
             retry == p1.kind = "df" /\ empty(p1)
             df_pop == IF retry THEN obter_populacao_municipios(a - 1, codigos, r2)
                       ELSE p1
             s == [st EXCEPT !.requests =
                      @ \o requests_populacao(codigos)
                        \o (IF retry THEN requests_populacao(codigos) ELSE <<>>)]
         IN  IF df_pop.kind = "raise" THEN raised(s, df_pop)
             ELSE [s EXCEPT !.df_pop = df_pop,
                             !.bronze_populacao = IF empty(df_pop) THEN @ ELSE df_pop]

\* run_fase1 lines 71 to 109: the extractors' tables of the sources sim and
\* sinasc, the Silver tables
fase_silver(st, a, sim, sinasc) ==
    IF st.done THEN st
    ELSE LET obitos == sim_obitos_por_municipio_pysus(a, sim)
             nascidos == sinasc_nascidos_por_municipio_pysus(a, sinasc)
             df_mun_s == bronze_ibge_municipios_para_silver(st.bronze_municipios)
             lido == bronze_ibge_populacao_para_silver(st.bronze_populacao, PyInt(a))
             df_pop_s == IF lido.kind = "df" /\ empty(lido) /\ ~empty(st.df_pop)
                         THEN padronizar_codigo_municipio(st.df_pop) ELSE lido
             ob == source_of(obitos)
             nv == source_of(nascidos)
             bad == first_raise(<<df_mun_s, df_pop_s, ob, nv>>)
             s == [st EXCEPT !.requests = @ \o <<"sim", "sinasc">>]
         IN  IF bad # PyNone THEN raised(s, bad)
             ELSE [s EXCEPT !.df_mun_s = df_mun_s, !.df_pop_s = df_pop_s,
                             !.df_obitos_s = ob, !.df_nascidos_s = nv]

\* run_fase1 line 111
fase_persistir_silver(st, now) ==
    IF st.done THEN st
    ELSE propagar(persistir_silver_no_banco(st, st.df_mun_s, st.df_pop_s, now))

\* run_fase1 lines 117 to 123
fase_indicadores(st, a, now) ==
    IF st.done THEN st
    ELSE LET g == indicadores_saude_por_municipio(st.df_pop_s, st.df_obitos_s, PyNone,
                                                  st.df_nascidos_s, PyInt(a), now)
         IN  IF g.kind = "raise" THEN raised(st, g) ELSE [st EXCEPT !.df_gold = g]

propagar_gold(st, r) ==
    propagar([store |-> [st EXCEPT !.gold_indicadores_saude_municipio = r.store],
              exc |-> r.exc])

\* run_fase1 lines 124 to 129
fase_persistir_gold(st, now) ==
    IF st.done \/ empty(st.df_gold) THEN st
    ELSE propagar_gold(st, persistir_gold_no_banco(st.gold_indicadores_saude_municipio,
                                                   st.df_gold, now))

-----------------------------------------------------------------------------
(* The pipeline and its store *)

\* calls of the pipeline in one behaviour
MaxCalls == 2

\* codes of the municipalities KA and KB as the IBGE services give them
IdA == int_of_digits(KA.s)
IdB == int_of_digits(KB.s)

Nome1 == PyStr(<<"S", "P">>)
Nome2 == PyStr(<<"S", "a", "o">>)

Item(id, nome) == [id |-> id, nome |-> nome, sigla_uf |-> PyStr(<<"U", "F">>),
                   cod_uf |-> PyInt(id \div 100000)]

RegistroA == Json(<<Item(IdA, Nome1)>>)
RegistroAB == Json(<<Item(IdA, Nome2), Item(IdB, Nome1)>>)

\* a series of one locality: the values of the years ys
Serie(id, ys, val) == [id |-> id, serie |-> [y \in {str(n) : n \in ys} |-> PyStr(val)]]

Val12M == <<"1", "2", ".", "0", "0", "0", ".", "0", "0", "0">>
Val256 == <<"2", "5", "6">>

\* the population responses that carry data
PopData ==
    {Json(<<Serie(IdA, {2024}, Val12M)>>),
     Json(<<Serie(IdA, {2024}, <<"-">>)>>),
     Json(<<Serie(IdA, {2023}, Val256)>>),
     Json(<<Serie(IdA, {2024}, Val256), Serie(IdB, {2023, 2024}, Val256)>>),
     Json(<<Serie(IdA, {2024}, <<"-">>), Serie(IdB, {2023, 2024}, Val256)>>),
     Json(<<Serie(IdA, {2024}, <<".", ".", ".">>), Serie(IdB, {2023, 2024}, Val256)>>)}

\* the population responses that carry none
PopNoData == {Json(<<>>), Json(<<Serie(IdA, {}, <<>>)>>)}

OptPadrao ==
    [todos_municipios |-> FALSE, amostra_municipios |-> PyNone, amostra_n |-> PyNone]
OptTodos == [OptPadrao EXCEPT !.todos_municipios = TRUE]
OptLista == [OptPadrao EXCEPT !.amostra_municipios = PyList(<<IdA>>)]
OptAmostra == [OptPadrao EXCEPT !.amostra_n = PyInt(1)]

\* a file read as a table with the one column col
Arquivo(col, valores) ==
    [kind |-> "df", columns |-> {col},
     rows |-> [i \in 1..Len(valores) |-> [c \in {col} |-> valores[i]]]]

\* a file that cannot be read
Ilegivel == Raise("Exception")

Fonte(pysus, download) == [pysus |-> pysus, download |-> download]

\* the library is not installed; nothing to download; the download fails
SemPysus == Fonte(FALSE, PyList(<<>>))
SemArquivos == Fonte(TRUE, PyList(<<>>))
FalhaDownload == Fonte(TRUE, Raise("Exception"))

\* two files of the year with 3 and 4 events of KA, the second with one of KC
DoisArquivos ==
    Fonte(TRUE, PyList(<<Arquivo("CODMUNRES", <<KA, KA, KA>>),
                         Arquivo("CODMUNRES", <<KA, KC, KA, KA, KA>>)>>))

\* one good file among a file that cannot be read and one with no key column
UmArquivoBom ==
    Fonte(TRUE, PyList(<<Ilegivel, Arquivo("CODMUNRES", <<KA, PyNone, KA>>),
                         Arquivo("IDADE", <<KA>>)>>))

\* two files of births, with 2 and 1 events of KA
DoisNascimentos ==
    Fonte(TRUE, PyList(<<Arquivo("CODMUNNASC", <<KA, KA>>), Arquivo("codmunres", <<KA>>)>>))

\* no file can be processed
SoIlegiveis == Fonte(TRUE, PyList(<<Ilegivel, Arquivo("IDADE", <<KA>>)>>))

\* the sources of one run: deaths, births
Extracoes(a) ==
    {<<SemPysus, SemPysus>>,
     <<DoisArquivos, FalhaDownload>>,
     <<UmArquivoBom, DoisNascimentos>>,
     <<SemArquivos, SoIlegiveis>>}

Run(opt, reg, r1, r2, ex) ==
    [opt |-> opt, reg |-> reg, r1 |-> r1, r2 |-> r2, sim |-> ex[1], sinasc |-> ex[2]]

\* the environments of one run for the year a
Runs(a) ==
    \* the registry fails or lists nothing
    {Run(OptPadrao, reg, RequestException, RequestException, <<SemPysus, SemPysus>>) :
        reg \in {RequestException, Json(<<>>), Json(<<Item(IdA, PyStr(<<>>))>>)}}
    \* the population request fails: all municipalities, one code
    \cup {Run(opt, RegistroAB, RequestException, RequestException, ex) :
            opt \in {OptPadrao, OptLista}, ex \in Extracoes(a)}
    \* population data at the first call
    \cup {Run(OptPadrao, RegistroAB, r1, RequestException, ex) :
            r1 \in PopData, ex \in Extracoes(a)}
    \cup {Run(opt, RegistroA, r1, RequestException, <<SemPysus, SemPysus>>) :
            opt \in {OptTodos, OptLista, OptAmostra},
            r1 \in {Json(<<Serie(IdA, {2024}, Val12M)>>)}}
    \cup {Run(OptAmostra, RegistroAB, Json(<<Serie(IdA, {2024}, Val256)>>),
              RequestException, <<SemPysus, SemPysus>>)}
    \* no population data at the first call, the retry for the year before
    \cup {Run(OptPadrao, RegistroAB, r1, r2, ex) :
            r1 \in PopNoData,
            r2 \in {Json(<<>>), Json(<<Serie(IdA, {2023}, Val256)>>)},
            ex \in {<<UmArquivoBom, SemArquivos>>}}

RunYears == {2024}

\* the tables handed to persistir_gold_no_banco when it is called by itself
PopRow(k, a, p) == [cod_mun_ibge_7 |-> k, ano |-> PyInt(a), populacao |-> p]

GoldFrames ==
    {EmptyTable}
        \cup {indicadores_saude_por_municipio(
                  [kind |-> "df", columns |-> PopColumns,
                   rows |-> <<[cod_mun_ibge_7 |-> o[1], ano |-> PyInt(o[2]),
                               populacao |-> o[3]]>>],
                  PyNone, PyNone, PyNone, PyInt(o[2]), 0) :
                o \in {<<KA, 2024, PyInt(256)>>, <<KA, 2023, PyInt(256)>>,
                       <<KB, 2024, PyInt(256)>>, <<KA, 2024, PyNaN>>}}
        \* the row of KB, that can be written, before the row of KA, that cannot
        \cup {indicadores_saude_por_municipio(
                  [kind |-> "df", columns |-> PopColumns,
                   rows |-> <<PopRow(KB, 2024, PyInt(256)), PopRow(KA, 2024, PyNaN)>>],
                  PyNone, PyNone, PyNone, PyInt(2024), 0)}

PopTable(rows) == [kind |-> "df", columns |-> PopColumns, rows |-> rows]

MunTableA ==
    [kind |-> "df", columns |-> MunColumns,
     rows |-> <<[cod_mun_ibge_7 |-> KA, nome_municipio |-> Nome1,
                 sigla_uf |-> PyStr(<<"U", "F">>), cod_uf |-> PyInt(35)]>>]

\* the tables handed to persistir_silver_no_banco when it is called by
\* itself: [df_municipios, df_populacao]
SilverFrames ==
    {\* both tables can be written
     [df_municipios |-> MunTableA,
      df_populacao |-> PopTable(<<PopRow(KA, 2024, PyInt(256))>>)],
     \* the second population row has no year: NOT NULL fails after the
     \* municipality and the first population row were written
     [df_municipios |-> MunTableA,
      df_populacao |-> PopTable(<<PopRow(KB, 2024, PyInt(256)),
                                  [PopRow(KA, 2024, PyInt(256)) EXCEPT !.ano = PyNaN]>>)],
     \* the population table has no column populacao: KeyError after the
     \* municipality was written
     [df_municipios |-> MunTableA,
      df_populacao |-> [kind |-> "df", columns |-> {coluna, "ano"},
                        rows |-> <<[cod_mun_ibge_7 |-> KA, ano |-> PyInt(2024)]>>]],
     \* the municipality table has no name column: KeyError before any write
     [df_municipios |-> [kind |-> "df", columns |-> {coluna},
                         rows |-> <<[cod_mun_ibge_7 |-> KA]>>],
      df_populacao |-> PopTable(<<PopRow(KA, 2024, PyInt(256))>>)]}

Init ==
    /\ pc = "start"
    /\ NormIdle
    /\ StdIdle
    /\ AggIdle
    /\ PipeIdle

\* one run of run_fase1
RunFase1 ==
    /\ clock < MaxCalls
    /\ \E a \in RunYears :
       \E run \in Runs(a) :
       \E s1 \in {fase_municipios(RunState, run.reg)} :
       \E s2 \in {fase_populacao(s1, a, run.opt, <<run.r1>>, <<run.r2>>)} :
       \E s3 \in {fase_silver(s2, a, run.sim, run.sinasc)} :
       \E s4 \in {fase_persistir_silver(s3, clock)} :
       \E s5 \in {fase_indicadores(s4, a, clock)} :
       \E st \in {fase_persistir_gold(s5, clock)} :
           /\ bronze_municipios' = st.bronze_municipios
           /\ bronze_populacao' = st.bronze_populacao
           /\ dim_municipio' = st.dim_municipio
           /\ silver_ibge_populacao' = st.silver_ibge_populacao
           /\ gold_indicadores_saude_municipio' = st.gold_indicadores_saude_municipio
           /\ df_populacao' = st.df_pop_s
           /\ df_obitos' = st.df_obitos_s
           /\ df_nascidos' = st.df_nascidos_s
           /\ gold' = st.df_gold
           /\ outcome' = st.outcome
           /\ ano' = PyInt(a)
           /\ env' = run
           /\ requests' = st.requests
    /\ pc' = "run_fase1"
    /\ clock' = clock + 1
    /\ UNCHANGED <<normVars, stdVars, df_internacoes>>

\* one call of persistir_gold_no_banco(d) by itself
PersistirGold ==
    /\ clock < MaxCalls
    /\ \E d \in GoldFrames :
       \E r \in {persistir_gold_no_banco(gold_indicadores_saude_municipio, d, clock)} :
            /\ gold' = d
            /\ outcome' = r.exc
            /\ gold_indicadores_saude_municipio' = r.store
    /\ pc' = "persistir_gold"
    /\ clock' = clock + 1
    /\ env' = PyNone
    /\ requests' = <<>>
    /\ UNCHANGED <<normVars, stdVars, df_populacao, df_obitos, df_internacoes,
                   df_nascidos, ano, bronzeVars, dim_municipio, silver_ibge_populacao>>

\* one call of persistir_silver_no_banco(df_municipios, df_populacao) by
\* itself
PersistirSilver ==
    /\ clock < MaxCalls
    /\ \E f \in SilverFrames :
       \E r \in {persistir_silver_no_banco(
                     [dim_municipio |-> dim_municipio,
                      silver_ibge_populacao |-> silver_ibge_populacao],
                     f.df_municipios, f.df_populacao, clock)} :
            /\ env' = f
            /\ outcome' = r.exc
            /\ dim_municipio' = r.store.dim_municipio
            /\ silver_ibge_populacao' = r.store.silver_ibge_populacao
    /\ pc' = "persistir_silver"
    /\ clock' = clock + 1
    /\ requests' = <<>>
    /\ UNCHANGED <<normVars, stdVars, aggVars, bronzeVars,
                   gold_indicadores_saude_municipio>>

Next == RunFase1 \/ PersistirGold \/ PersistirSilver

Spec == Init /\ [][Next]_vars

-----------------------------------------------------------------------------
(* Claims on the pipeline and its store *)

\* C1: after any sequence of runs and of persistir_gold_no_banco calls the
\* Gold table holds at most one row per (municipality key, year).
C1_GoldOneRowPerKeyYear ==
    \A i, j \in 1..Len(gold_indicadores_saude_municipio) :
        (/\ gold_indicadores_saude_municipio[i].cod_mun_ibge_7
                = gold_indicadores_saude_municipio[j].cod_mun_ibge_7
         /\ gold_indicadores_saude_municipio[i].ano
                = gold_indicadores_saude_municipio[j].ano) => i = j

\* the registry answered and no item of the answer has an id and a name
NoMunicipality(reg) ==
    reg.kind = "json"
        /\ \A i \in 1..Len(reg.data) : reg.data[i].id = 0 \/ reg.data[i].nome.s = <<>>

\* C12: a run whose registry request fails ends with that error, a run
\* whose registry lists no municipality returns; either way the run leaves
\* the dimension, population and Gold tables and the Bronze files as they
\* were and makes no request but the registry's.
C12_RegistryFailureAborts ==
    [][(pc' = "run_fase1" /\ (env'.reg.kind = "raise" \/ NoMunicipality(env'.reg))) =>
          /\ env'.reg.kind = "raise" => outcome' = env'.reg
          /\ NoMunicipality(env'.reg) => outcome' = PyNone
          /\ requests' = <<"municipios">>
          /\ UNCHANGED <<dbVars, bronzeVars>>]_vars

\* the registry fails in a run that follows one that filled the tables
C12_Witness ==
    /\ pc = "run_fase1"
    /\ env.reg.kind = "raise"
    /\ outcome = env.reg
    /\ requests = <<"municipios">>
    /\ dim_municipio # {}
    /\ gold_indicadores_saude_municipio # <<>>

\* the registry of the run listed a municipality
Listed(reg) == reg.kind = "json" /\ ~NoMunicipality(reg)

\* C13: a run whose first population request fails does not end with the
\* error of that request: the extractor gives an empty table and the run
\* goes on to the vital events and the Silver stage.
C13_FailedPopulationCallDegrades ==
    (pc = "run_fase1" /\ Listed(env.reg) /\ env.r1.kind = "raise") =>
        /\ outcome # env.r1
        /\ \E i \in 1..Len(requests) : requests[i] = "sim"

\* the source gives nothing for the year: the library is not installed,
\* the download fails, or there is no file
Nada(fonte) ==
    ~fonte.pysus \/ fonte.download.kind = "raise" \/ fonte.download.items = <<>>

\* the run asked the vital-events sources
Asked == \E i \in 1..Len(requests) : requests[i] = "sim"

\* C14: in a run that asks a vital-events source which gives nothing, the
\* extractor returns an empty table, the run ends without an exception,
\* and every Gold row of the run has the total of that metric 0.
C14_NoVitalEventsIsNonFatal ==
    (pc = "run_fase1" /\ Asked) =>
        /\ Nada(env.sim) =>
              /\ sim_obitos_por_municipio_pysus(ano.v, env.sim) = EmptyTable
              /\ outcome = PyNone
              /\ \A i \in 1..Len(gold.rows) : gold.rows[i].total_obitos = PyInt(0)
        /\ Nada(env.sinasc) =>
              /\ sinasc_nascidos_por_municipio_pysus(ano.v, env.sinasc) = EmptyTable
              /\ outcome = PyNone
              /\ \A i \in 1..Len(gold.rows) : gold.rows[i].nascidos_vivos = PyInt(0)

\* the population table fetched by a run with the environment e for the
\* year a (run_fase1 lines 63 to 66)
df_pop_of(e, a) ==
    LET codigos == codigos_of(listar_municipios(e.reg), e.opt)
        p1 == obter_populacao_municipios(a, codigos, <<e.r1>>)
    IN  IF p1.kind = "df" /\ empty(p1)
        THEN obter_populacao_municipios(a - 1, codigos, <<e.r2>>)
        ELSE p1

\* the population fetch of the run gave no rows, at the call for the year
\* and at the call for the year before
NoPopulation(e, a) ==
    Listed(e.reg) /\ df_pop_of(e, a).kind = "df" /\ empty(df_pop_of(e, a))

\* C15: a run whose population fetch gives no rows leaves the Gold table
\* as it was, whatever the Bronze directory holds from earlier runs.
C15_NoPopulationNoGold ==
    [][(pc' = "run_fase1" /\ NoPopulation(env', ano'.v)) =>
          gold_indicadores_saude_municipio' = gold_indicadores_saude_municipio]_vars

\* the population fetch of the run gave no rows at the call for the year
\* and rows at the call for the year before
RetryGaveRows(e, a) ==
    /\ Listed(e.reg)
    /\ \E p1 \in {obter_populacao_municipios(
                      a, codigos_of(listar_municipios(e.reg), e.opt), <<e.r1>>)} :
          p1.kind = "df" /\ empty(p1)
    /\ df_pop_of(e, a).kind = "df"
    /\ ~empty(df_pop_of(e, a))

\* the keys of the rows of the population fetch
ChavesBuscadas(e, a) ==
    {df_pop_of(e, a).rows[i][coluna] : i \in 1..Len(df_pop_of(e, a).rows)}

EventosArquivo(f, extra, k) ==
    IF f.kind = "raise" \/ col_mun(f, extra) = "" THEN 0
    ELSE LET norm == [i \in 1..Len(f.rows) |-> _codigo_7(f.rows[i][col_mun(f, extra)])]
         IN  IF \E i \in 1..Len(norm) : norm[i].kind = "raise" THEN 0
             ELSE Cardinality({i \in 1..Len(norm) : norm[i] = k})

\* the events of the key k in all the files
RECURSIVE Eventos(_, _, _)
Eventos(files, extra, k) ==
    IF files = <<>> THEN 0
    ELSE EventosArquivo(Head(files), extra, k) + Eventos(Tail(files), extra, k)

\* the table d of a run has one row for each key with events in the files
\* and no other, with the year of the run and the sum of the files' counts
SomaDosArquivos(d, fonte, extra, total) ==
    /\ \A i, j \in 1..Len(d.rows) :
            d.rows[i][coluna] = d.rows[j][coluna] => i = j
    /\ \A i \in 1..Len(d.rows) :
            /\ d.rows[i].ano = ano
            /\ d.rows[i][total] = PyInt(Eventos(fonte.download.items, extra, d.rows[i][coluna]))
    /\ \A k \in {KA, KB, KC} :
            Eventos(fonte.download.items, extra, k) > 0 =>
                \E i \in 1..Len(d.rows) : d.rows[i][coluna] = k

\* C16: the table of deaths (of births) that a run extracts from several
\* files of the year has exactly one row for a key and the year, and its
\* count is the sum of the counts of the key in the files: 3 and 4 give 7.
C16_FilesSummed ==
    (pc = "run_fase1" /\ Asked) =>
        /\ df_obitos # PyNone =>
               SomaDosArquivos(df_obitos, env.sim, "CODESTAB", "total_obitos")
        /\ df_nascidos # PyNone =>
               SomaDosArquivos(df_nascidos, env.sinasc, "CODMUNNASC", "nascidos_vivos")

\* two files with 3 and 4 deaths of KA: one row of KA, with 7
C16_Witness ==
    /\ pc = "run_fase1"
    /\ env.sim = DoisArquivos
    /\ df_obitos # PyNone
    /\ Len(df_obitos.rows) = 2
    /\ df_obitos.rows[1] = linha_total(KA, 2024, "total_obitos", 7)
    /\ df_obitos.rows[2] = linha_total(KC, 2024, "total_obitos", 1)

\* C17: silver_ibge_populacao only grows: every step keeps the rows it
\* had, and a run that ends without an exception appends one row for each
\* row of its Silver population table, with the load time of the run,
\* also when the table already holds rows of the same key and year.
C17_SilverAppendOnly ==
    [][/\ Len(silver_ibge_populacao') >= Len(silver_ibge_populacao)
       /\ SubSeq(silver_ibge_populacao', 1, Len(silver_ibge_populacao))
              = silver_ibge_populacao
       /\ (pc' = "run_fase1" /\ outcome' = PyNone
              /\ \E i \in 1..Len(requests') : requests'[i] = "sim") =>
            LET old == Len(silver_ibge_populacao)
                new == df_populacao'.rows
            IN  /\ Len(silver_ibge_populacao') = old + Len(new)
                /\ \A i \in 1..Len(new) :
                       LET s == silver_ibge_populacao'[old + i]
                       IN  /\ s.cod_mun_ibge_7 = new[i].cod_mun_ibge_7
                           /\ s.ano = new[i].ano
                           /\ s.populacao = new[i].populacao
                           /\ s.data_carga = PyInt(clock)
                           /\ \A j \in 1..old : silver_ibge_populacao[j].id # s.id]_vars

\* two runs with the same population: two rows of the key and year, each
\* with its load time
C17_Witness ==
    /\ pc = "run_fase1"
    /\ Len(silver_ibge_populacao) = 2
    /\ silver_ibge_populacao[1].cod_mun_ibge_7 = silver_ibge_populacao[2].cod_mun_ibge_7
    /\ silver_ibge_populacao[1].ano = silver_ibge_populacao[2].ano
    /\ silver_ibge_populacao[1].populacao = silver_ibge_populacao[2].populacao
    /\ silver_ibge_populacao[1].data_carga = PyInt(0)
    /\ silver_ibge_populacao[2].data_carga = PyInt(1)

\* the row d of the dimension table is the row r of a listing
SameMunicipio(d, r) ==
    /\ d.cod_mun_ibge_7 = r.cod_mun_ibge_7
    /\ d.nome_municipio = r.nome_municipio
    /\ d.sigla_uf = r.sigla_uf

\* C18: dim_municipio has one row for a key and never loses a key; a step
\* changes or adds a row only to the values of the municipality listing
\* of that run or call, and a run that ends without an exception leaves, for each
\* key it listed, the row with the name and state of its listing.
C18_DimOneRowLastWriteWins ==
    [][/\ \A d1, d2 \in dim_municipio' :
              d1.cod_mun_ibge_7 = d2.cod_mun_ibge_7 => d1 = d2
       /\ \A d \in dim_municipio :
              \E e \in dim_municipio' : e.cod_mun_ibge_7 = d.cod_mun_ibge_7
       /\ \A e \in dim_municipio' \ dim_municipio :
              \/ /\ pc' = "run_fase1"
                 /\ \E i \in 1..Len(bronze_municipios'.rows) :
                        SameMunicipio(e, bronze_municipios'.rows[i])
              \/ /\ pc' = "persistir_silver"
                 /\ \E i \in 1..Len(env'.df_municipios.rows) :
                        SameMunicipio(e, env'.df_municipios.rows[i])
       /\ (pc' = "run_fase1" /\ outcome' = PyNone
              /\ \E i \in 1..Len(requests') : requests'[i] = "sim") =>
            LET lista == bronze_municipios'.rows
            IN  \A i \in 1..Len(lista) :
                    (\A j \in (i + 1)..Len(lista) :
                         lista[j].cod_mun_ibge_7 # lista[i].cod_mun_ibge_7) =>
                    \E e \in dim_municipio' : SameMunicipio(e, lista[i])]_vars

\* the key KA listed with the second name and later with the first: its
\* one row carries the first name, next to the row of KB
C18_Witness ==
    /\ pc = "run_fase1"
    /\ env.reg = RegistroA
    /\ outcome = PyNone
    /\ Cardinality(dim_municipio) = 2
    /\ \E d \in dim_municipio : d.cod_mun_ibge_7 = KA /\ d.nome_municipio = Nome1
    /\ \E d \in dim_municipio : d.cod_mun_ibge_7 = KB

\* an exception occurs while the rows of the Gold table d are inserted
FalhaGold(d) ==
    \E i \in 1..Len(d.rows) :
        \/ first_raise(gold_params(d.rows[i])) # PyNone
        \/ isna(d.rows[i][coluna])

\* an exception occurs while the Silver tables f are inserted
FalhaSilver(f) ==
    \/ ~(PopColumns \subseteq f.df_populacao.columns)
    \/ ~({coluna, "nome_municipio", "sigla_uf"} \subseteq f.df_municipios.columns)
    \/ \E i \in 1..Len(f.df_populacao.rows) :
           isna(f.df_populacao.rows[i].ano) \/ isna(f.df_populacao.rows[i][coluna])

\* C28: a call of persistir_gold_no_banco or of persistir_silver_no_banco
\* during which an exception occurs raises it and leaves every table of
\* the store as it was before the call; a call during which none occurs
\* raises nothing and leaves in the store one row of this load for every
\* row handed to it.
C28_PersistenceAllOrNothing ==
    [][/\ (pc' = "persistir_gold" /\ FalhaGold(gold')) =>
             /\ outcome'.kind = "raise"
             /\ gold_indicadores_saude_municipio' = gold_indicadores_saude_municipio
       /\ (pc' = "persistir_gold" /\ ~FalhaGold(gold')) =>
             /\ outcome' = PyNone
             /\ Len(gold_indicadores_saude_municipio')
                    = Len(gold_indicadores_saude_municipio) + Len(gold'.rows)
             /\ \A i \in 1..Len(gold'.rows) :
                   \E j \in 1..Len(gold_indicadores_saude_municipio') :
                       /\ gold_indicadores_saude_municipio'[j][coluna] = gold'.rows[i][coluna]
                       /\ gold_indicadores_saude_municipio'[j].ano = gold'.rows[i].ano
                       /\ gold_indicadores_saude_municipio'[j].data_carga = PyInt(clock)
       /\ (pc' = "persistir_silver" /\ FalhaSilver(env')) =>
             /\ outcome'.kind = "raise"
             /\ dim_municipio' = dim_municipio
             /\ silver_ibge_populacao' = silver_ibge_populacao
       /\ (pc' = "persistir_silver" /\ ~FalhaSilver(env')) =>
             /\ outcome' = PyNone
             /\ Len(silver_ibge_populacao')
                    = Len(silver_ibge_populacao) + Len(env'.df_populacao.rows)
             /\ \A i \in 1..Len(env'.df_populacao.rows) :
                   \E j \in 1..Len(silver_ibge_populacao') :
                       /\ silver_ibge_populacao'[j][coluna] = env'.df_populacao.rows[i][coluna]
                       /\ silver_ibge_populacao'[j].ano = env'.df_populacao.rows[i].ano
                       /\ silver_ibge_populacao'[j].data_carga = PyInt(clock)
             /\ \A i \in 1..Len(env'.df_municipios.rows) :
                   \E e \in dim_municipio' :
                       SameMunicipio(e, env'.df_municipios.rows[i])
       /\ pc' = "run_fase1" =>
             /\ \/ gold_indicadores_saude_municipio' = gold_indicadores_saude_municipio
                \/ /\ outcome' = PyNone
                   /\ Len(gold_indicadores_saude_municipio')
                          = Len(gold_indicadores_saude_municipio) + Len(gold'.rows)
             /\ \/ silver_ibge_populacao' = silver_ibge_populacao
                \/ Len(silver_ibge_populacao')
                       = Len(silver_ibge_populacao) + Len(df_populacao'.rows)]_vars

\* a second call of persistir_silver_no_banco, after one that wrote the
\* population row of KA: the row of KB was written when the row after it
\* failed, and the table holds the row of the first call only
C28_Witness ==
    /\ pc = "persistir_silver"
    /\ outcome = Raise("IntegrityError")
    /\ Len(env.df_populacao.rows) = 2
    /\ env.df_populacao.rows[1][coluna] = KB
    /\ clock = 2
    /\ Len(silver_ibge_populacao) = 1
    /\ silver_ibge_populacao[1][coluna] = KA
    /\ silver_ibge_populacao[1].data_carga = PyInt(0)

\* C9: a run whose population table has a row with a valid key and a missing
\* population ends without an exception, and the Gold table holds the row
\* of that key and year loaded by this run, the rate of a present deaths
\* source being null.
C9_MissingPopulationRecorded ==
    pc = "run_fase1" =>
        \A i \in 1..Len(df_populacao.rows) :
            LET r == df_populacao.rows[i]
            IN  (ValidKey(r.cod_mun_ibge_7) /\ r.ano = ano /\ isna(r.populacao)) =>
                    /\ outcome = PyNone
                    /\ \E n \in 1..Len(gold_indicadores_saude_municipio) :
                        LET g == gold_indicadores_saude_municipio[n]
                        IN  /\ g.cod_mun_ibge_7 = r.cod_mun_ibge_7
                            /\ g.ano = ano
                            /\ g.data_carga = PyInt(clock - 1)
                            /\ df_obitos # PyNone => g.taxa_obitos_100k = PyNone

-----------------------------------------------------------------------------
(* obter_populacao_municipios called by itself: env holds the codes and the *)
(* responses of the service, ano the requested year, df_populacao receives  *)
(* the table returned.                                                      *)

\* series in one response
MaxSeries == 2

V100 == <<"1", "0", "0">>

\* year -> value of one series: only the year 2024; 2023 and 2024; years
\* before 2023; 2024 and a later year; no year; a year without a figure;
\* a key that is not a year next to 2022
SerieSamples ==
    {str(2024) :> PyStr(Val256),
     str(2023) :> PyStr(V100) @@ str(2024) :> PyStr(Val256),
     str(2021) :> PyStr(Val12M) @@ str(2022) :> PyStr(Val256),
     str(2024) :> PyStr(Val256) @@ str(2025) :> PyStr(V100),
     [y \in {} |-> PyStr(<<>>)],
     str(2023) :> PyStr(<<"-">>),
     str(20240) :> PyStr(V100) @@ str(2022) :> PyStr(Val256)}

\* the series of a response: a locality id (0 when it is missing) and values
SeriesOf == {[id |-> id, serie |-> s] : id \in {IdA, IdB, 0}, s \in SerieSamples}

\* the responses to the all-municipalities request
RespostasTodos ==
    {RequestException} \cup {Json(d) : d \in UNION {SeqsOf(SeriesOf, n) : n \in 0..MaxSeries}}

\* the responses to the request of the code id
RespostasCodigo(id) ==
    {RequestException, Json(<<>>)}
        \cup {Json(<<[id |-> id, serie |-> s]>>) : s \in SerieSamples}

\* the codes asked and the responses: all municipalities, one code, two
ConnectorInputs ==
    {[codigos |-> c, resps |-> <<r>>] :
        c \in {PyNone, PyList(<<>>), PyList(<<IdA>>)}, r \in RespostasTodos}
        \cup {[codigos |-> PyList(<<IdA, IdB>>), resps |-> <<r1, r2>>] :
                 r1 \in RespostasCodigo(IdA), r2 \in RespostasCodigo(IdB)}

InitPopulacao ==
    /\ pc = "start"
    /\ env \in ConnectorInputs
    /\ ano \in {PyInt(2023), PyInt(2024)}
    /\ df_populacao = EmptyTable
    /\ df_obitos = PyNone
    /\ df_internacoes = PyNone
    /\ df_nascidos = PyNone
    /\ gold = PyNone
    /\ clock = 0
    /\ NormIdle
    /\ StdIdle
    /\ bronze_municipios = PyNone
    /\ bronze_populacao = PyNone
    /\ dim_municipio = {}
    /\ silver_ibge_populacao = <<>>
    /\ gold_indicadores_saude_municipio = <<>>
    /\ outcome = PyNone
    /\ requests = <<>>

\* one call of IBGEConnector.obter_populacao_municipios
ObterPopulacao ==
    /\ pc = "start"
    /\ \E p \in {obter_populacao_municipios(ano.v, env.codigos, env.resps)} :
          /\ df_populacao' = IF p.kind = "raise" THEN EmptyTable ELSE p
          /\ outcome' = IF p.kind = "raise" THEN p ELSE PyNone
    /\ requests' = requests_populacao(env.codigos)
    /\ pc' = "fetched"
    /\ UNCHANGED <<normVars, stdVars, df_obitos, df_internacoes, df_nascidos, ano,
                   gold, clock, bronzeVars, dbVars, env>>

NextPopulacao == ObterPopulacao

SpecPopulacao == InitPopulacao /\ [][NextPopulacao]_vars

\* the series of the responses that were answered, in the order of the
\* requests
RECURSIVE SeriesRespondidas(_)
SeriesRespondidas(resps) ==
    IF resps = <<>> THEN <<>>
    ELSE (IF Head(resps).kind = "raise" THEN <<>> ELSE Head(resps).data)
         \o SeriesRespondidas(Tail(resps))

\* the keys of a series that are years
Anos(serie) == {k \in DOMAIN serie : Len(k) = 4 /\ \A i \in 1..4 : k[i] \in DecimalDigits}

\* the year whose value stands for the year y: y itself when the series
\* has it, else the latest year of the series; <<>> when it has none
AnoUsado(serie, y) ==
    IF str(y) \in DOMAIN serie THEN str(y)
    ELSE IF Anos(serie) = {} THEN <<>>
    ELSE CHOOSE k \in Anos(serie) : \A j \in Anos(serie) : ~StrLess(k, j)

\* C20: the table returned for the year Y has one row for each series of
\* the answered responses that has a locality and a year; the row carries
\* the year Y and the figure of Y in the series when the series has Y,
\* else the figure of the latest year of the series.
C20_RequestedYearLabelKept ==
    (pc = "fetched" /\ outcome = PyNone) =>
        LET com == SelectSeq(SeriesRespondidas(env.resps),
                             LAMBDA s : s.id # 0 /\ AnoUsado(s.serie, ano.v) # <<>>)
            rows == df_populacao.rows
        IN  /\ Len(rows) = Len(com)
            /\ \A i \in 1..Len(rows) :
                  /\ rows[i].ano = ano
                  /\ rows[i].cod_mun_ibge_7 = PyStr(zfill(str(com[i].id), 7))
                  /\ rows[i].populacao =
                         populacao_of(com[i].serie[AnoUsado(com[i].serie, ano.v)])

\* 2024 asked of a series that ends in 2022: the row of 2024 with the
\* figure of 2022, after the row of a series that has 2024
C20_Witness ==
    /\ pc = "fetched"
    /\ ano = PyInt(2024)
    /\ env.codigos = PyList(<<IdA, IdB>>)
    /\ Len(df_populacao.rows) = 2
    /\ df_populacao.rows[1] = [cod_mun_ibge_7 |-> KA, ano |-> PyInt(2024), populacao |-> PyInt(256)]
    /\ env.resps[2].kind = "json"
    /\ env.resps[2].data = <<[id |-> IdB, serie |-> str(2021) :> PyStr(Val12M) @@ str(2022) :> PyStr(Val256)]>>
    /\ df_populacao.rows[2] = [cod_mun_ibge_7 |-> KB, ano |-> PyInt(2024), populacao |-> PyInt(256)]

=============================================================================
